---- MODULE Spec2Model ----
(***************************************************************************)
(* Model of opencode-openai-auth-rotator: the multi-account store, the     *)
(* account manager's operations and the quota-based rotation logic.        *)
(*                                                                         *)
(* Optional values (TypeScript `x?: T`) are sets with at most one member:  *)
(* {} is undefined, {v} is the value v.                                    *)
(***************************************************************************)
EXTENDS Integers, Sequences, FiniteSets, TLC

(***************************************************************************)
(* Bounds of the model.                                                    *)
(***************************************************************************)
\* The number of distinct account ids, hence the largest collection.
MaxAccounts == 3

AccountIds == 1..MaxAccounts

(***************************************************************************)
(* Program constants and value domains.                                    *)
(***************************************************************************)
\* `currentAccountId?: string` left undefined.
Undefined == 0

DEFAULT_ROTATION_THRESHOLD == 90

\* The default, and the threshold of the README's `check --threshold 80`.
Thresholds == {80, DEFAULT_ROTATION_THRESHOLD}

None == {}

Some(v) == {v}

Val(o) == CHOOSE v \in o : TRUE

\* RateLimitWindow, reduced to the field the rotation logic reads.
Window(used) == used

\* RateLimitSnapshot: primary and secondary are optional windows.
Snapshot(p, s) == [primary |-> p, secondary |-> s]

\* The snapshots the usage endpoint returns in the manager model.
FetchedSnapshots ==
    { Snapshot(Some(Window(85)), None),
      Snapshot(Some(Window(70)), Some(Window(90))) }

\* The outcome of one usage request: None when it throws.
FetchOutcomes == {None} \cup {Some(rl) : rl \in FetchedSnapshots}

VARIABLES
    storage,    \* CodexAccountManager.storage : CodexAuthStorage
    result,     \* what the last manager operation returned
    rateLimits, \* argument of the evaluated shouldRotateAccount call
    threshold,  \* argument of the evaluated shouldRotateAccount call
    shouldRotate, \* its return value, None before the call
    call,       \* an evaluated call of another function: name, arguments, return value
    disk,       \* the storage file as saveStorage last wrote it
    now,        \* Date.now()
    requests,   \* the requests sent to the provider, in order
    attempts,   \* the performLogin calls and their callback servers
    inflight,   \* the refreshAccountQuota calls awaiting a response
    plugin,     \* where showQuotaToast and the auto-refresh sweep stand
    auth        \* OpenCode's auth.json

vars == <<storage, result, rateLimits, threshold, shouldRotate,
          call, disk, now, requests, attempts, inflight, plugin, auth>>

managerVars == <<storage, result>>

quotaVars == <<rateLimits, threshold, shouldRotate>>

\* The variables of the token lifecycle.
tokenVars == <<disk, now, requests>>

\* What the manager's operations, taken one at a time with the token pairs
\* left out, do not touch.
restVars == <<quotaVars, call, tokenVars, attempts, inflight, plugin, auth>>

\* The variables of the plugin's timers and of the auth.json sync.
pluginVars == <<inflight, plugin, auth>>

(***************************************************************************)
(* quota/tracker                                                           *)
(***************************************************************************)
\* shouldRotateAccount with a defect: a window exactly at the threshold does
\* not count.
shouldRotateAccount_StrictlyAbove(rl, thr) ==
    IF rl = None THEN FALSE
    ELSE IF Val(rl).primary # None /\ Val(Val(rl).primary) > thr THEN TRUE
    ELSE IF Val(rl).secondary # None /\ Val(Val(rl).secondary) > thr THEN TRUE
    ELSE FALSE

shouldRotateAccount(rl, thr) ==
    IF rl = None THEN FALSE
    ELSE IF Val(rl).primary # None /\ Val(Val(rl).primary) >= thr THEN TRUE
    ELSE IF Val(rl).secondary # None /\ Val(Val(rl).secondary) >= thr THEN TRUE
    ELSE FALSE

(***************************************************************************)
(* accounts/storage                                                        *)
(***************************************************************************)
\* CodexAccount, reduced to its id, its token pair and its cached snapshot.
Account(id, tokens, rl) == [id |-> id, tokens |-> tokens, rateLimits |-> rl]

createDefaultStorage ==
    [ currentAccountId |-> Undefined,
      accounts |-> <<>>,
      rotationThreshold |-> DEFAULT_ROTATION_THRESHOLD ]

\* Array.prototype.findIndex on the id, 1-based; 0 when no account matches.
FindIndex(accounts, id) ==
    IF \E i \in 1..Len(accounts) : accounts[i].id = id
    THEN CHOOSE i \in 1..Len(accounts) :
            /\ accounts[i].id = id
            /\ \A j \in 1..(i - 1) : accounts[j].id # id
    ELSE 0

\* getCurrentAccount with a defect: no current account without a current
\* account id.
getCurrentAccount_NoConvention(s) ==
    IF s.currentAccountId = Undefined
    THEN 0
    ELSE FindIndex(s.accounts, s.currentAccountId)

\* The index of the current account; 0 when there is none.
getCurrentAccount(s) ==
    IF s.currentAccountId = Undefined
    THEN (IF Len(s.accounts) > 0 THEN 1 ELSE 0)
    ELSE FindIndex(s.accounts, s.currentAccountId)

\* addAccount with a defect: the added account becomes the current one
\* whether one is set or not.
addAccount_ActivatesNew(s, account) ==
    LET existingIndex == FindIndex(s.accounts, account.id)
        accounts == IF existingIndex > 0
                    THEN [s.accounts EXCEPT ![existingIndex] = account]
                    ELSE Append(s.accounts, account)
    IN [s EXCEPT !.accounts = accounts, !.currentAccountId = account.id]

addAccount(s, account) ==
    LET existingIndex == FindIndex(s.accounts, account.id)
        accounts == IF existingIndex > 0
                    THEN [s.accounts EXCEPT ![existingIndex] = account]
                    ELSE Append(s.accounts, account)
    IN [s EXCEPT !.accounts = accounts,
                 !.currentAccountId =
                     IF s.currentAccountId = Undefined THEN account.id ELSE @]

\* removeAccount with a defect: the current account id is left as it is
\* when the current account is removed.
removeAccount_PointerKept(s, accountId) ==
    [s EXCEPT !.accounts = SelectSeq(s.accounts, LAMBDA a : a.id # accountId)]

\* removeAccount with a defect: the last account is moved into the place of
\* the removed one.
removeAccount_SwapWithLast(s, accountId) ==
    LET i == FindIndex(s.accounts, accountId)
        n == Len(s.accounts)
        accounts == IF i = 0 THEN s.accounts
                    ELSE IF i = n THEN SubSeq(s.accounts, 1, n - 1)
                    ELSE SubSeq([s.accounts EXCEPT ![i] = s.accounts[n]], 1, n - 1)
    IN [s EXCEPT !.accounts = accounts,
                 !.currentAccountId =
                     IF s.currentAccountId = accountId
                     THEN (IF Len(accounts) > 0 THEN accounts[1].id ELSE Undefined)
                     ELSE @]

removeAccount(s, accountId) ==
    LET accounts == SelectSeq(s.accounts, LAMBDA a : a.id # accountId)
    IN [s EXCEPT !.accounts = accounts,
                 !.currentAccountId =
                     IF s.currentAccountId = accountId
                     THEN (IF Len(accounts) > 0 THEN accounts[1].id ELSE Undefined)
                     ELSE @]

setCurrentAccount(s, accountId) ==
    IF FindIndex(s.accounts, accountId) > 0
    THEN [s EXCEPT !.currentAccountId = accountId]
    ELSE s

updateAccountRateLimits(s, accountId, rl) ==
    LET i == FindIndex(s.accounts, accountId)
    IN IF i > 0 THEN [s EXCEPT !.accounts[i].rateLimits = Some(rl)] ELSE s

(***************************************************************************)
(* accounts/manager                                                        *)
(***************************************************************************)
\* What an operation returned or logged: the fields of RotationResult (an
\* undefined id is Undefined), `threw` for a rejected promise, and
\* `accountId` for the account login returns and the CLI commands log.
Returned(op, accountId, rotated, prev, new, reason) ==
    [ op |-> op, threw |-> FALSE, accountId |-> accountId, rotated |-> rotated,
      previousAccountId |-> prev, newAccountId |-> new, reason |-> reason ]

RotationResult(op, rotated, prev, new, reason) ==
    Returned(op, Undefined, rotated, prev, new, reason)

Threw(op) ==
    [ op |-> op, threw |-> TRUE, accountId |-> Undefined, rotated |-> FALSE,
      previousAccountId |-> Undefined, newAccountId |-> Undefined,
      reason |-> "Failed to fetch rate limits" ]

\* The operations whose return value is not recorded.
NoResult == RotationResult("none", FALSE, Undefined, Undefined, "")

\* refreshAccountQuota with the usage request's outcome `fetch`.
refreshAccountQuota(s, accountId, fetch) ==
    IF FindIndex(s.accounts, accountId) = 0
    THEN [storage |-> s, threw |-> FALSE]
    ELSE IF fetch = None
    THEN [storage |-> s, threw |-> TRUE]
    ELSE [storage |-> updateAccountRateLimits(s, accountId, Val(fetch)),
          threw |-> FALSE]

\* switchAccount with a defect: the current account id is not written.
switchAccount_NotApplied(s, accountId) == s

switchAccount(s, accountId) == setCurrentAccount(s, accountId)

\* availableAccounts with a defect: an account without a snapshot is not a
\* candidate.
availableAccounts_RequiresSnapshot(s, currentId) ==
    SelectSeq(s.accounts,
              LAMBDA a : /\ a.id # currentId
                         /\ a.rateLimits # None
                         /\ ~shouldRotateAccount(a.rateLimits, s.rotationThreshold))

\* availableAccounts with a defect: the filter is lost.
availableAccounts_Unfiltered(s, currentId) == s.accounts

\* availableAccounts with a defect: the candidates are taken starting after
\* the current account and wrapping round.
availableAccounts_AfterCurrentFirst(s, currentId) ==
    LET i == FindIndex(s.accounts, currentId)
        n == Len(s.accounts)
    IN SelectSeq(SubSeq(s.accounts, i + 1, n) \o SubSeq(s.accounts, 1, i),
                 LAMBDA a : /\ a.id # currentId
                            /\ ~shouldRotateAccount(a.rateLimits, s.rotationThreshold))

\* The accounts checkAndRotate may rotate to, in collection order.
availableAccounts(s, currentId) ==
    SelectSeq(s.accounts,
              LAMBDA a : /\ a.id # currentId
                         /\ ~shouldRotateAccount(a.rateLimits, s.rotationThreshold))

checkAndRotate(s, fetch) ==
    LET cur == getCurrentAccount(s) IN
    IF cur = 0
    THEN [storage |-> s,
          result |-> RotationResult("checkAndRotate", FALSE, Undefined, Undefined,
                                    "No accounts configured")]
    ELSE
    LET currentId == s.accounts[cur].id
        refreshed == refreshAccountQuota(s, currentId, fetch)
        s1        == refreshed.storage
        current   == s1.accounts[cur]
        available == availableAccounts(s1, currentId)
    IN  IF refreshed.threw
        THEN [storage |-> s1, result |-> Threw("checkAndRotate")]
        ELSE IF ~shouldRotateAccount(current.rateLimits, s1.rotationThreshold)
        THEN [storage |-> s1,
              result |-> RotationResult("checkAndRotate", FALSE, Undefined, Undefined,
                                        "Current account within quota")]
        ELSE IF Len(available) = 0
        THEN [storage |-> s1,
              result |-> RotationResult("checkAndRotate", FALSE, currentId, Undefined,
                                        "All accounts at or above threshold")]
        ELSE [storage |-> switchAccount(s1, available[1].id),
              result |-> RotationResult("checkAndRotate", TRUE, currentId,
                                        available[1].id, "Rotated")]

\* nextIndex with a defect: accounts at or above the threshold are skipped
\* while another one is below it.
nextIndex_SkipsExhausted(s, currentIndex) ==
    LET n == Len(s.accounts)
        at(k) == ((currentIndex - 1 + k) % n) + 1
        below == {k \in 1..(n - 1) :
                    ~shouldRotateAccount(s.accounts[at(k)].rateLimits,
                                         s.rotationThreshold)}
    IN IF below = {} THEN at(1)
       ELSE at(CHOOSE k \in below : \A m \in below : k <= m)

\* nextIndex with a defect: no wrap from the last account to the first.
nextIndex_NoWrap(s, currentIndex) ==
    IF currentIndex = Len(s.accounts) THEN currentIndex ELSE currentIndex + 1

\* (currentIndex + 1) % accounts.length, on 1-based indices.
nextIndex(s, currentIndex) == (currentIndex % Len(s.accounts)) + 1

rotate(s) ==
    LET cur == getCurrentAccount(s) IN
    IF cur = 0
    THEN [storage |-> s,
          result |-> RotationResult("rotate", FALSE, Undefined, Undefined,
                                    "No accounts configured")]
    ELSE
    LET currentId    == s.accounts[cur].id
        currentIndex == FindIndex(s.accounts, currentId)
        nextAccount  == s.accounts[nextIndex(s, currentIndex)]
    IN  IF nextAccount.id = currentId
        THEN [storage |-> s,
              result |-> RotationResult("rotate", FALSE, Undefined, Undefined,
                                        "Only one account available")]
        ELSE [storage |-> switchAccount(s, nextAccount.id),
              result |-> RotationResult("rotate", TRUE, currentId, nextAccount.id,
                                        "Rotated")]

\* login with a defect: a failure of the quota fetch is thrown to the
\* caller.
login_QuotaFailureThrown(s, account, fetch) ==
    [ storage |-> refreshAccountQuota(addAccount(s, account), account.id, fetch).storage,
      result  |-> IF fetch = None THEN Threw("login")
                  ELSE Returned("login", account.id, FALSE, Undefined, Undefined, "") ]

\* login once performLogin has resolved with the new account: it is added
\* and saved, then its quota is fetched, a failure of which is swallowed.
login(s, account, fetch) ==
    [ storage |-> refreshAccountQuota(addAccount(s, account), account.id, fetch).storage,
      result  |-> Returned("login", account.id, FALSE, Undefined, Undefined, "") ]

updateSettings(s, thr) == [s EXCEPT !.rotationThreshold = thr]

(***************************************************************************)
(* cli                                                                     *)
(***************************************************************************)
\* cmdImport with a defect: the imported account is appended without looking
\* for its id.
cmdImport_AlwaysAppends(s, account) ==
    [ storage |-> [s EXCEPT !.accounts = Append(@, account),
                            !.currentAccountId =
                                IF @ = Undefined THEN account.id ELSE @],
      result  |-> Returned("cmdImport", account.id, FALSE, Undefined, Undefined,
                           "Imported account") ]

\* cmdImport of the account importFromOpenCodeAuth returned: an account
\* whose id is stored keeps its record and takes the imported tokens; any
\* other is added.
cmdImport(s, account) ==
    LET existing == FindIndex(s.accounts, account.id) IN
    IF existing > 0
    THEN [ storage |-> [s EXCEPT !.accounts[existing].tokens = account.tokens],
           result  |-> Returned("cmdImport", account.id, FALSE, Undefined, Undefined,
                                "Updated account") ]
    ELSE [ storage |-> addAccount(s, account),
           result  |-> Returned("cmdImport", account.id, FALSE, Undefined, Undefined,
                                "Imported account") ]

\* cmdAddToken of the account createAccountFromRefreshToken returned.
cmdAddToken(s, account) ==
    [ storage |-> addAccount(s, account),
      result  |-> Returned("cmdAddToken", account.id, FALSE, Undefined, Undefined,
                           "Added account") ]

(***************************************************************************)
(* The account manager as a state machine: one operation at a time on one  *)
(* store, each running to completion.                                      *)
(***************************************************************************)
\* The token pair of every account of the manager model, which does not
\* tell token pairs apart.
ManagerTokens == "tokens"

RECURSIVE Orderings(_)
Orderings(ids) ==
    IF ids = {} THEN {<<>>}
    ELSE UNION { {<<Account(id, ManagerTokens, None)>> \o rest
                    : rest \in Orderings(ids \ {id})} : id \in ids }

\* A store written by an earlier version, as migrateStorage returns it:
\* accounts keyed by distinct ids, no snapshots, no current account id.
migrateStorage ==
    { [createDefaultStorage EXCEPT !.accounts = accts]
        : accts \in UNION {Orderings(ids) : ids \in SUBSET AccountIds} }

\* The constructor's loadStorage(): no file yet, or a migrated one.
InitManager ==
    /\ storage \in {createDefaultStorage} \cup migrateStorage
    /\ result = NoResult

InitQuotaIdle ==
    /\ rateLimits = None
    /\ threshold = DEFAULT_ROTATION_THRESHOLD
    /\ shouldRotate = None

\* No timer has fired, no call is in flight, auth.json does not exist.
InitPluginIdle ==
    /\ inflight = {}
    /\ plugin = [timer |-> "idle", toast |-> "idle"]
    /\ auth = None

\* No pure function evaluated, nothing saved or sent, no login started.
InitRestIdle ==
    /\ call = None
    /\ disk = createDefaultStorage
    /\ now = 0
    /\ requests = <<>>
    /\ attempts = <<>>
    /\ InitPluginIdle

\* generateAccountId returns an id no stored account has, and the
\* collection has room for it.
CanAddNew(id, max) ==
    /\ Len(storage.accounts) < max
    /\ FindIndex(storage.accounts, id) = 0

\* importFromOpenCodeAuth returns the id auth.json carries: a stored one, or
\* one the collection has room for.
CanImport(id, max) ==
    \/ Len(storage.accounts) < max
    \/ FindIndex(storage.accounts, id) > 0

Login ==
    \E id \in AccountIds, fetch \in FetchOutcomes :
        /\ CanAddNew(id, MaxAccounts)
        /\ storage' = login(storage, Account(id, ManagerTokens, None), fetch).storage
        /\ result' = NoResult
        /\ UNCHANGED restVars

CmdImport ==
    \E id \in AccountIds :
        /\ CanImport(id, MaxAccounts)
        /\ storage' = cmdImport(storage, Account(id, ManagerTokens, None)).storage
        /\ result' = NoResult
        /\ UNCHANGED restVars

CmdAddToken ==
    \E id \in AccountIds :
        /\ CanAddNew(id, MaxAccounts)
        /\ storage' = cmdAddToken(storage, Account(id, ManagerTokens, None)).storage
        /\ result' = NoResult
        /\ UNCHANGED restVars

RemoveAccount ==
    \E id \in AccountIds :
        /\ storage' = removeAccount(storage, id)
        /\ result' = NoResult
        /\ UNCHANGED restVars

SwitchAccount ==
    \E id \in AccountIds :
        /\ storage' = switchAccount(storage, id)
        /\ result' = NoResult
        /\ UNCHANGED restVars

RefreshAccountQuota ==
    \E id \in AccountIds, fetch \in FetchOutcomes :
        /\ storage' = refreshAccountQuota(storage, id, fetch).storage
        /\ result' = NoResult
        /\ UNCHANGED restVars

CheckAndRotate ==
    \E fetch \in FetchOutcomes :
        /\ storage' = checkAndRotate(storage, fetch).storage
        /\ result' = checkAndRotate(storage, fetch).result
        /\ UNCHANGED restVars

Rotate ==
    /\ storage' = rotate(storage).storage
    /\ result' = rotate(storage).result
    /\ UNCHANGED restVars

UpdateSettings ==
    \E thr \in Thresholds :
        /\ storage' = updateSettings(storage, thr)
        /\ result' = NoResult
        /\ UNCHANGED restVars

Next ==
    \/ Login
    \/ CmdImport
    \/ CmdAddToken
    \/ RemoveAccount
    \/ SwitchAccount
    \/ RefreshAccountQuota
    \/ CheckAndRotate
    \/ Rotate
    \/ UpdateSettings

Init == InitManager /\ InitQuotaIdle /\ InitRestIdle

Spec == Init /\ [][Next]_vars

(***************************************************************************)
(* The store under additions and removals alone, with the token pairs told *)
(* apart by where they come from and each addition's return value kept.    *)
(***************************************************************************)
\* The largest collection of the store model.
MaxStoreAccounts == 2

StoreIds == 1..MaxStoreAccounts

\* The one snapshot the usage endpoint returns in the store model.
StoreFetchOutcomes == {None, Some(Snapshot(Some(Window(85)), None))}

InitStore ==
    /\ storage = createDefaultStorage
    /\ result = NoResult
    /\ InitQuotaIdle
    /\ InitRestIdle

\* auth.json never carries the id generated for a login: that account is
\* synced under its provider account id.
ImportableId(id) ==
    \A i \in 1..Len(storage.accounts) :
        storage.accounts[i].id = id => storage.accounts[i].tokens # "oauth"

StoreLogin ==
    \E id \in StoreIds, fetch \in StoreFetchOutcomes :
        /\ CanAddNew(id, MaxStoreAccounts)
        /\ storage' = login(storage, Account(id, "oauth", None), fetch).storage
        /\ result' = login(storage, Account(id, "oauth", None), fetch).result
        /\ UNCHANGED restVars

StoreCmdImport ==
    \E id \in StoreIds :
        /\ CanImport(id, MaxStoreAccounts)
        /\ ImportableId(id)
        /\ storage' = cmdImport(storage, Account(id, "auth.json", None)).storage
        /\ result' = cmdImport(storage, Account(id, "auth.json", None)).result
        /\ UNCHANGED restVars

StoreCmdAddToken ==
    \E id \in StoreIds :
        /\ CanAddNew(id, MaxStoreAccounts)
        /\ storage' = cmdAddToken(storage, Account(id, "refresh token", None)).storage
        /\ result' = cmdAddToken(storage, Account(id, "refresh token", None)).result
        /\ UNCHANGED restVars

StoreRemoveAccount ==
    \E id \in StoreIds :
        /\ storage' = removeAccount(storage, id)
        /\ result' = Returned("removeAccount", id, FALSE, Undefined, Undefined, "")
        /\ UNCHANGED restVars

StoreRefreshAccountQuota ==
    \E id \in StoreIds, fetch \in StoreFetchOutcomes :
        /\ storage' = refreshAccountQuota(storage, id, fetch).storage
        /\ result' = Returned("refreshAccountQuota", id, FALSE, Undefined, Undefined, "")
        /\ UNCHANGED restVars

NextStore ==
    \/ StoreLogin
    \/ StoreCmdImport
    \/ StoreCmdAddToken
    \/ StoreRemoveAccount
    \/ StoreRefreshAccountQuota

SpecStore == InitStore /\ [][NextStore]_vars

(***************************************************************************)
(* shouldRotateAccount on its own: the arguments are drawn, then the call  *)
(* is evaluated.                                                           *)
(***************************************************************************)
QuotaPercents == {0, 79, 80, 81, 89, 90, 91, 100}

QuotaThresholds == {0, 80, 90, 100}

OptionalWindows == {None} \cup {Some(Window(u)) : u \in QuotaPercents}

QuotaSnapshots ==
    {None} \cup {Some(Snapshot(p, s)) : p \in OptionalWindows, s \in OptionalWindows}

InitQuota ==
    /\ storage = createDefaultStorage
    /\ result = NoResult
    /\ rateLimits \in QuotaSnapshots
    /\ threshold \in QuotaThresholds
    /\ shouldRotate = None
    /\ InitRestIdle

EvaluateShouldRotate ==
    /\ shouldRotate = None
    /\ shouldRotate' = Some(shouldRotateAccount(rateLimits, threshold))
    /\ UNCHANGED <<storage, result, rateLimits, threshold, call, tokenVars, attempts, pluginVars>>

NextQuota == EvaluateShouldRotate

SpecQuota == InitQuota /\ [][NextQuota]_vars

(***************************************************************************)
(* Vocabulary of the properties.                                           *)
(***************************************************************************)
\* The usedPercent values of the windows a snapshot carries.
PresentWindows(snapshot) == snapshot.primary \cup snapshot.secondary

\* The snapshot is present and one of its windows is at or above thr.
AtOrAbove(rl, thr) ==
    /\ rl # None
    /\ \E used \in PresentWindows(Val(rl)) : used >= thr

IdSeq(accounts) == [i \in 1..Len(accounts) |-> accounts[i].id]

IdSet(accounts) == {accounts[i].id : i \in 1..Len(accounts)}

\* A step of checkAndRotate that fetched the active account's quota.
CheckedStep ==
    /\ result'.op = "checkAndRotate"
    /\ ~result'.threw
    /\ getCurrentAccount(storage) > 0

\* The accounts other than the active one that checkAndRotate may choose,
\* by index, as the store stands after the fetch.
EligibleOthers ==
    {i \in 1..Len(storage'.accounts) :
        /\ i # getCurrentAccount(storage)
        /\ ~AtOrAbove(storage'.accounts[i].rateLimits, storage.rotationThreshold)}

Min(S) == CHOOSE x \in S : \A y \in S : x <= y

(***************************************************************************)
(* C1                                                                      *)
(***************************************************************************)
\* C1: shouldRotateAccount(snapshot, threshold) returns true if and only if
\* the snapshot is present and at least one present window has usedPercent
\* >= threshold; it returns false when the snapshot is absent or carries no
\* window.
C1_ShouldRotateIff ==
    shouldRotate # None =>
        /\ Val(shouldRotate) = AtOrAbove(rateLimits, threshold)
        /\ rateLimits = None => Val(shouldRotate) = FALSE
        /\ (rateLimits # None /\ PresentWindows(Val(rateLimits)) = {})
              => Val(shouldRotate) = FALSE

\* The call returned true on the secondary window alone, at equality.
C1_Witness ==
    /\ shouldRotate = Some(TRUE)
    /\ rateLimits # None
    /\ Val(rateLimits).secondary = Some(threshold)
    /\ \A used \in Val(rateLimits).primary : used < threshold

(***************************************************************************)
(* C2                                                                      *)
(***************************************************************************)
C2_Step ==
    CheckedStep =>
        LET a      == getCurrentAccount(storage)
            active == storage'.accounts[a].rateLimits
            thr    == storage.rotationThreshold
            same   == storage'.currentAccountId = storage.currentAccountId
        IN  /\ result'.reason \in {"Current account within quota",
                                   "All accounts at or above threshold", "Rotated"}
            /\ ~AtOrAbove(active, thr) =>
                  /\ result'.reason = "Current account within quota"
                  /\ ~result'.rotated /\ same
            /\ (AtOrAbove(active, thr) /\ EligibleOthers = {}) =>
                  /\ result'.reason = "All accounts at or above threshold"
                  /\ ~result'.rotated /\ same
            /\ (AtOrAbove(active, thr) /\ EligibleOthers # {}) =>
                  /\ result'.reason = "Rotated"
                  /\ result'.rotated
                  /\ result'.newAccountId # Undefined
                  /\ storage'.currentAccountId = result'.newAccountId
                  /\ ~same

\* C2: checkAndRotate, once the active account's quota has been fetched,
\* yields exactly one of three outcomes: no action when the active account's
\* snapshot does not meet the threshold; no candidate available when it does
\* and no other account is eligible; otherwise rotated to newId. The active
\* pointer is changed in the third case only, and then to exactly newId.
C2_ThreeOutcomes == [][C2_Step]_vars

\* checkAndRotate rotated, and the pointer is the id it returned.
C2_Witness ==
    /\ result.op = "checkAndRotate"
    /\ result.rotated
    /\ storage.currentAccountId = result.newAccountId
    /\ result.previousAccountId # result.newAccountId

(***************************************************************************)
(* C3                                                                      *)
(***************************************************************************)
C3_Step ==
    CheckedStep =>
        LET a   == getCurrentAccount(storage)
            thr == storage.rotationThreshold
            j   == FindIndex(storage.accounts, result'.newAccountId)
        IN  /\ result'.rotated =>
                  /\ j > 0 /\ j # a
                  /\ ~AtOrAbove(storage.accounts[j].rateLimits, thr)
                  /\ \A i \in 1..(j - 1) :
                        i # a => AtOrAbove(storage.accounts[i].rateLimits, thr)
            /\ \A i \in 1..Len(storage.accounts) :
                  (/\ i # a
                   /\ storage.accounts[i].rateLimits = None
                   /\ AtOrAbove(storage'.accounts[a].rateLimits, thr))
                  => (result'.rotated /\ j <= i)
            /\ EligibleOthers = {} => ~result'.rotated

\* C3: when automatic rotation selects a replacement, it is the first
\* account in collection order, other than the active one, whose cached
\* snapshot does not satisfy shouldRotate at the threshold; a candidate with
\* no cached snapshot counts as eligible; no replacement is selected when
\* every other account is at or above the threshold.
C3_FirstEligible == [][C3_Step]_vars

\* checkAndRotate chose an account without a snapshot, having passed over an
\* earlier account at or above the threshold.
C3_Witness ==
    /\ result.op = "checkAndRotate"
    /\ result.rotated
    /\ LET j == FindIndex(storage.accounts, result.newAccountId)
           a == FindIndex(storage.accounts, result.previousAccountId)
       IN  /\ j > 0 /\ a > 0
           /\ storage.accounts[j].rateLimits = None
           /\ \E i \in 1..(j - 1) :
                 /\ i # a
                 /\ AtOrAbove(storage.accounts[i].rateLimits, storage.rotationThreshold)

(***************************************************************************)
(* C4                                                                      *)
(***************************************************************************)
C4_Step ==
    (CheckedStep /\ result'.rotated) =>
        /\ result'.newAccountId # storage.accounts[getCurrentAccount(storage)].id
        /\ result'.newAccountId \in IdSet(storage.accounts)
        /\ storage'.currentAccountId \in IdSet(storage'.accounts)
        /\ storage'.currentAccountId
              # storage.accounts[getCurrentAccount(storage)].id

\* C4: for every collection, active account and threshold, the account
\* selected by automatic rotation is never the active account and is always
\* an account present in the collection.
C4_NeverActiveAlwaysPresent == [][C4_Step]_vars

\* checkAndRotate rotated in a full collection, away from its first account.
C4_Witness ==
    /\ result.op = "checkAndRotate"
    /\ result.rotated
    /\ Len(storage.accounts) = MaxAccounts
    /\ storage.accounts[1].id = result.previousAccountId
    /\ result.newAccountId \in IdSet(storage.accounts)

(***************************************************************************)
(* C5                                                                      *)
(***************************************************************************)
\* checkAndRotate rotates while eligible accounts lie on both sides of the
\* active one.
C5_Case ==
    /\ CheckedStep
    /\ result'.rotated
    /\ \E i \in EligibleOthers : i < getCurrentAccount(storage)
    /\ \E i \in EligibleOthers : i > getCurrentAccount(storage)

\* C5 as claimed: when the active account is not first in the collection
\* and eligible accounts exist both before and after it in collection order,
\* the account chosen is the first eligible one after the active account.
C5_Original ==
    [][C5_Case =>
          FindIndex(storage.accounts, result'.newAccountId)
            = Min({i \in EligibleOthers : i > getCurrentAccount(storage)})]_vars

C5_Step ==
    /\ C5_Case =>
          /\ FindIndex(storage.accounts, result'.newAccountId) = Min(EligibleOthers)
          /\ FindIndex(storage.accounts, result'.newAccountId)
                < getCurrentAccount(storage)
    /\ (/\ CheckedStep
        /\ result'.rotated
        /\ \A i \in EligibleOthers : i > getCurrentAccount(storage))
       => FindIndex(storage.accounts, result'.newAccountId) = Min(EligibleOthers)

\* C5, amended: automatic rotation moves to the first available account in
\* collection order, not to the next one after the current account: when
\* eligible accounts exist both before and after the active account, the
\* account chosen is the first eligible one of the collection, which lies
\* before the active account; the first eligible one after the active
\* account is chosen only when no eligible account precedes it.
C5_FirstInCollectionOrder == [][C5_Step]_vars

\* checkAndRotate moved back to an account before the one it left, although
\* an eligible account follows the one it left.
C5_Witness ==
    /\ result.op = "checkAndRotate"
    /\ result.rotated
    /\ LET j == FindIndex(storage.accounts, result.newAccountId)
           a == FindIndex(storage.accounts, result.previousAccountId)
       IN  /\ 0 < j /\ j < a
           /\ \E i \in (a + 1)..Len(storage.accounts) :
                 ~AtOrAbove(storage.accounts[i].rateLimits, storage.rotationThreshold)

(***************************************************************************)
(* C6                                                                      *)
(***************************************************************************)
C6_Step ==
    result'.op = "rotate" =>
        LET n == Len(storage.accounts)
            a == getCurrentAccount(storage)
        IN  /\ n >= 2 =>
                  /\ a > 0
                  /\ result'.rotated
                  /\ result'.previousAccountId = storage.accounts[a].id
                  /\ result'.newAccountId = storage.accounts[(a % n) + 1].id
                  /\ storage'.currentAccountId = storage.accounts[(a % n) + 1].id
            /\ n = 1 =>
                  /\ ~result'.rotated
                  /\ result'.reason = "Only one account available"
                  /\ storage'.currentAccountId = storage.currentAccountId
            /\ storage'.accounts = storage.accounts

\* C6: manual rotate() ignores all quota data: whenever at least two
\* accounts exist it makes active the account immediately after the active
\* one in collection order, wrapping from the last to the first, whatever
\* any account's usage is; with exactly one account it reports that only one
\* account is available and leaves the active pointer unchanged.
C6_RoundRobin == [][C6_Step]_vars

\* rotate() left an account below the threshold for one at or above it,
\* while another account below the threshold was there to take.
C6_Witness ==
    /\ result.op = "rotate"
    /\ result.rotated
    /\ LET j == FindIndex(storage.accounts, result.newAccountId)
           a == FindIndex(storage.accounts, result.previousAccountId)
           thr == storage.rotationThreshold
       IN  /\ j > 0 /\ a > 0
           /\ AtOrAbove(storage.accounts[j].rateLimits, thr)
           /\ ~AtOrAbove(storage.accounts[a].rateLimits, thr)
           /\ \E i \in 1..Len(storage.accounts) :
                 i # a /\ i # j /\ ~AtOrAbove(storage.accounts[i].rateLimits, thr)

(***************************************************************************)
(* C7                                                                      *)
(***************************************************************************)
\* The store after k consecutive rotate() calls.
RECURSIVE RotateTimes(_, _)
RotateTimes(s, k) == IF k = 0 THEN s ELSE rotate(RotateTimes(s, k - 1)).storage

\* The index of the account active after k consecutive rotate() calls.
ActiveAfter(s, k) == getCurrentAccount(RotateTimes(s, k))

\* C7: from any state with N >= 2 accounts and no other operation
\* interleaved, N consecutive manual rotate() calls all succeed, make every
\* account active exactly once in collection order, and end with the
\* initially active account active again; this holds also when the active
\* pointer was initially unset.
C7_FullCycle ==
    LET n == Len(storage.accounts)
        a == getCurrentAccount(storage)
    IN  n >= 2 =>
          /\ a > 0
          /\ \A k \in 1..n :
                /\ rotate(RotateTimes(storage, k - 1)).result.rotated
                /\ ActiveAfter(storage, k) = ((a - 1 + k) % n) + 1
                /\ RotateTimes(storage, k).currentAccountId
                      = storage.accounts[((a - 1 + k) % n) + 1].id
          /\ {storage.accounts[ActiveAfter(storage, k)].id : k \in 1..n}
                = IdSet(storage.accounts)
          /\ Cardinality(IdSet(storage.accounts)) = n
          /\ ActiveAfter(storage, n) = a

\* rotate() wrapped from the last account of a collection of three or more
\* to the first.
C7_Witness ==
    /\ result.op = "rotate"
    /\ result.rotated
    /\ Len(storage.accounts) >= 3
    /\ result.previousAccountId = storage.accounts[Len(storage.accounts)].id
    /\ result.newAccountId = storage.accounts[1].id
    /\ storage.currentAccountId = storage.accounts[1].id

(***************************************************************************)
(* C8                                                                      *)
(***************************************************************************)
\* isCurrent of the account listings: a.id === current?.id.
IsCurrent(i) ==
    /\ getCurrentAccount(storage) > 0
    /\ storage.accounts[i].id = storage.accounts[getCurrentAccount(storage)].id

PointerAbsent ==
    /\ storage.currentAccountId = Undefined
    /\ Len(storage.accounts) > 0

C8_State ==
    /\ Cardinality({i \in 1..Len(storage.accounts) : IsCurrent(i)}) <= 1
    /\ PointerAbsent => getCurrentAccount(storage) = 1

C8_Step ==
    PointerAbsent =>
        /\ result'.op = "rotate" =>
              /\ result'.reason # "No accounts configured"
              /\ Len(storage.accounts) >= 2 =>
                    /\ result'.rotated
                    /\ result'.previousAccountId = storage.accounts[1].id
                    /\ result'.newAccountId = storage.accounts[2].id
        /\ result'.op = "checkAndRotate" =>
              /\ result'.reason # "No accounts configured"
              /\ ~result'.threw =>
                    /\ storage'.accounts[1].rateLimits # None
                    /\ \A i \in 2..Len(storage.accounts) :
                          storage'.accounts[i] = storage.accounts[i]
              /\ result'.rotated =>
                    /\ result'.previousAccountId = storage.accounts[1].id
                    /\ result'.newAccountId # storage.accounts[1].id
              /\ result'.reason = "All accounts at or above threshold" =>
                    result'.previousAccountId = storage.accounts[1].id

\* C8: in every reachable state at most one account is active, and whenever
\* the active pointer is absent and the collection is non-empty, the first
\* account of the collection is the one treated as active by every operation
\* (getCurrentAccount, rotate, checkAndRotate).
C8_FirstIsActiveByConvention == []C8_State /\ [][C8_Step]_vars

\* checkAndRotate ran without an active pointer, fetched the first account's
\* quota and left the pointer absent.
C8_Witness ==
    /\ PointerAbsent
    /\ Len(storage.accounts) >= 2
    /\ result.op = "checkAndRotate"
    /\ result.reason = "Current account within quota"
    /\ storage.accounts[1].rateLimits # None
    /\ storage.accounts[2].rateLimits = None

(***************************************************************************)
(* C9                                                                      *)
(***************************************************************************)
NoDuplicateIds ==
    \A i, j \in 1..Len(storage.accounts) :
        storage.accounts[i].id = storage.accounts[j].id => i = j

\* The token pair the account added by an operation carries.
TokensOf(op) ==
    CASE op = "login" -> "oauth"
      [] op = "cmdImport" -> "auth.json"
      [] op = "cmdAddToken" -> "refresh token"

\* A step that adds an account whose id is stored already.
AddsExistingId ==
    /\ result'.op \in {"login", "cmdImport", "cmdAddToken"}
    /\ FindIndex(storage.accounts, result'.accountId) > 0

\* A step that adds an account whose id is not stored.
AddsNewId ==
    /\ result'.op \in {"login", "cmdImport", "cmdAddToken"}
    /\ FindIndex(storage.accounts, result'.accountId) = 0

\* C9 as claimed: no two accounts share an id, and adding an account whose
\* id already exists replaces the existing record with the new one, which
\* carries the new tokens and no snapshot of the old record.
C9_Original ==
    /\ []NoDuplicateIds
    /\ [][AddsExistingId =>
            LET i == FindIndex(storage.accounts, result'.accountId)
            IN  /\ storage'.accounts[i].tokens = TokensOf(result'.op)
                /\ storage'.accounts[i].rateLimits = None]_vars

C9_Step ==
    /\ AddsExistingId =>
          LET i == FindIndex(storage.accounts, result'.accountId)
          IN  /\ result'.op = "cmdImport"
              /\ storage'.accounts
                    = [storage.accounts EXCEPT ![i].tokens = "auth.json"]
              /\ storage'.accounts[i].rateLimits = storage.accounts[i].rateLimits
    /\ AddsNewId =>
          /\ Len(storage'.accounts) = Len(storage.accounts) + 1
          /\ storage'.accounts[Len(storage'.accounts)].id = result'.accountId
          /\ storage'.accounts[Len(storage'.accounts)].tokens = TokensOf(result'.op)
          /\ \A i \in 1..Len(storage.accounts) :
                storage'.accounts[i] = storage.accounts[i]

\* C9, amended: after any sequence of account additions (login, import,
\* add-token) and removals, no two accounts in the collection share an id;
\* login and add-token always add under a newly generated id; an import
\* whose id already exists keeps the existing record, snapshot included, and
\* overwrites only its tokens.
C9_NoDuplicatesImportKeepsRecord == []NoDuplicateIds /\ [][C9_Step]_vars

\* An import met its id in the store: the record kept its snapshot and took
\* the imported tokens.
C9_Witness ==
    /\ result.op = "cmdImport"
    /\ result.reason = "Updated account"
    /\ LET i == FindIndex(storage.accounts, result.accountId)
       IN  /\ i > 0
           /\ storage.accounts[i].rateLimits # None
           /\ storage.accounts[i].tokens = "auth.json"

(***************************************************************************)
(* C10                                                                     *)
(***************************************************************************)
\* Every operation, applied to the store as it stands, yields the order the
\* claim names for it.
C10_State ==
    LET before == IdSeq(storage.accounts)
        seq(s) == IdSeq(s.accounts)
        without(id) == IdSeq(SelectSeq(storage.accounts, LAMBDA a : a.id # id))
        new(id) == Account(id, ManagerTokens, None)
    IN  /\ \A id \in AccountIds \ IdSet(storage.accounts) :
              /\ \A fetch \in FetchOutcomes :
                    seq(login(storage, new(id), fetch).storage) = Append(before, id)
              /\ seq(cmdAddToken(storage, new(id)).storage) = Append(before, id)
              /\ seq(cmdImport(storage, new(id)).storage) = Append(before, id)
        /\ \A id \in IdSet(storage.accounts) :
              /\ seq(cmdImport(storage, new(id)).storage) = before
              /\ seq(addAccount(storage, new(id))) = before
        /\ \A id \in AccountIds :
              /\ seq(removeAccount(storage, id)) = without(id)
              /\ seq(switchAccount(storage, id)) = before
              /\ \A fetch \in FetchOutcomes :
                    seq(refreshAccountQuota(storage, id, fetch).storage) = before
        /\ seq(rotate(storage).storage) = before
        /\ \A fetch \in FetchOutcomes :
              seq(checkAndRotate(storage, fetch).storage) = before
        /\ \A thr \in Thresholds : seq(updateSettings(storage, thr)) = before

\* Every step leaves the order alone, appends one new id, or takes one id
\* out.
C10_Step ==
    LET before == IdSeq(storage.accounts)
        after  == IdSeq(storage'.accounts)
    IN  /\ \/ after = before
           \/ \E id \in AccountIds \ IdSet(storage.accounts) :
                 after = Append(before, id)
           \/ \E id \in IdSet(storage.accounts) :
                 after = IdSeq(SelectSeq(storage.accounts, LAMBDA a : a.id # id))
        /\ result'.op \in {"rotate", "checkAndRotate"} => after = before

\* C10: collection order is insertion order and is stable: adding an
\* account with a new id appends it at the end, adding one with an existing
\* id keeps its position, removing an account preserves the relative order
\* of the others, and switch, rotate, settings updates and quota refreshes
\* never reorder accounts.
C10_StableOrder == []C10_State /\ [][C10_Step]_vars

\* rotate() acted on a full collection that is not in the order of its ids.
C10_Witness ==
    /\ Len(storage.accounts) = MaxAccounts
    /\ \E i \in 1..(Len(storage.accounts) - 1) :
          storage.accounts[i].id > storage.accounts[i + 1].id
    /\ result.op = "rotate"
    /\ result.rotated

(***************************************************************************)
(* oauth: token expiry                                                     *)
(***************************************************************************)
\* The safety margin of isTokenExpired, in milliseconds.
EXPIRY_MARGIN_MS == 60000

\* isTokenExpired at Date.now() = t. `!expiresAt` holds for undefined and
\* for the number 0.
isTokenExpired(expiresAt, t) ==
    IF expiresAt = None \/ Val(expiresAt) = 0 THEN FALSE
    ELSE t >= Val(expiresAt) - EXPIRY_MARGIN_MS

(***************************************************************************)
(* isTokenExpired on its own: the argument and the clock are drawn, then   *)
(* the call is evaluated.                                                  *)
(***************************************************************************)
\* Values of Date.now(), in milliseconds.
NowValues == {100000, 139999, 140000, 140001, 200000, 260001}

\* Values expiresAt is set to: 0 by createAccountFromRefreshToken, the
\* others by the token endpoint's expires_in.
ExpiresAtValues ==
    {0, 100000, 159999, 160000, 160001, 199999, 200000, 200001, 260000, 320001}

OptionalExpiresAt == {None} \cup {Some(e) : e \in ExpiresAtValues}

\* A call of a pure function, before it returns.
Call(fn, args) == [fn |-> fn, args |-> args, ret |-> None]

InitExpiry ==
    /\ storage = createDefaultStorage
    /\ result = NoResult
    /\ InitQuotaIdle
    /\ call \in {Call("isTokenExpired", <<e>>) : e \in OptionalExpiresAt}
    /\ now \in NowValues
    /\ disk = createDefaultStorage
    /\ requests = <<>>
    /\ attempts = <<>>
    /\ InitPluginIdle

EvaluateIsTokenExpired ==
    /\ call.fn = "isTokenExpired"
    /\ call.ret = None
    /\ call' = [call EXCEPT !.ret = Some(isTokenExpired(call.args[1], now))]
    /\ UNCHANGED <<managerVars, quotaVars, tokenVars, attempts, pluginVars>>

NextExpiry == EvaluateIsTokenExpired

SpecExpiry == InitExpiry /\ [][NextExpiry]_vars

(***************************************************************************)
(* C11                                                                     *)
(***************************************************************************)
\* C11: isTokenExpired(expiresAt) evaluated at time now is true exactly when
\* expiresAt is set and now >= expiresAt - 60 seconds, for every value
\* expiresAt can be set to; it is false when expiresAt is not set.
C11_ExpiredIffSetAndDue ==
    (call.fn = "isTokenExpired" /\ call.ret # None) =>
        LET expiresAt == call.args[1]
        IN  Val(call.ret)
              = (expiresAt # None /\ now >= Val(expiresAt) - EXPIRY_MARGIN_MS)

\* isTokenExpired returned false for expiresAt set to 0, the value
\* createAccountFromRefreshToken sets, long after 0 - 60 seconds.
C11_Witness ==
    /\ call.fn = "isTokenExpired"
    /\ call.args[1] = Some(0)
    /\ now >= 0 - EXPIRY_MARGIN_MS
    /\ call.ret = Some(FALSE)

(***************************************************************************)
(* oauth: token refresh                                                    *)
(***************************************************************************)
\* OAuthTokens, without tokenType.
Tokens(accessToken, refreshToken, expiresAt) ==
    [accessToken |-> accessToken, refreshToken |-> refreshToken, expiresAt |-> expiresAt]

\* An optional string that is neither undefined nor empty.
Truthy(o) == o # None /\ Val(o) # ""

\* An optional number that is neither undefined nor 0.
NonZero(o) == o # None /\ Val(o) # 0

\* The body of a 2xx response of the token endpoint.
TokenResponse(accessToken, refreshToken, expiresIn) ==
    [access_token |-> accessToken, refresh_token |-> refreshToken, expires_in |-> expiresIn]

\* refreshTokens with a defect: the response's refresh_token is taken as it
\* is, present or not.
refreshTokens_DropsRefreshToken(refreshToken, response, t) ==
    IF response = None THEN None
    ELSE LET data == Val(response)
         IN  Some(Tokens(data.access_token,
                         data.refresh_token,
                         IF NonZero(data.expires_in)
                         THEN Some(t + Val(data.expires_in) * 1000) ELSE None))

\* refreshTokens at Date.now() = t: None when the response is not 2xx and
\* the call throws, the new pair otherwise.
refreshTokens(refreshToken, response, t) ==
    IF response = None THEN None
    ELSE LET data == Val(response)
         IN  Some(Tokens(data.access_token,
                         IF data.refresh_token # None
                         THEN data.refresh_token ELSE Some(refreshToken),
                         IF NonZero(data.expires_in)
                         THEN Some(t + Val(data.expires_in) * 1000) ELSE None))

(***************************************************************************)
(* quota/tracker: the quota fetch of one account                           *)
(***************************************************************************)
\* A request sent to the provider: the token endpoint ("refresh", carrying
\* a refresh token) or the usage endpoint ("usage", carrying an access
\* token), with the response it got, None for a response that is not 2xx.
Request(kind, token, response) == [kind |-> kind, token |-> token, response |-> response]

\* fetchRateLimitsForAccount with a defect: the usage request is sent with
\* the account's stored access token even after a refresh.
fetchRateLimitsForAccount_SendsStoredToken(account, t, refreshResponse, usageResponse) ==
    LET refreshing == /\ isTokenExpired(account.tokens.expiresAt, t)
                      /\ Truthy(account.tokens.refreshToken)
        refreshed  == refreshTokens(Val(account.tokens.refreshToken), refreshResponse, t)
        refreshRequest ==
            Request("refresh", Val(account.tokens.refreshToken), refreshResponse)
        sent == (IF refreshing THEN <<refreshRequest>> ELSE <<>>)
                    \o <<Request("usage", account.tokens.accessToken, usageResponse)>>
    IN  IF refreshing /\ refreshed = None
        THEN [threw |-> TRUE, rateLimits |-> None, updatedTokens |-> None,
              requests |-> <<refreshRequest>>]
        ELSE IF usageResponse = None
        THEN [threw |-> TRUE, rateLimits |-> None, updatedTokens |-> None,
              requests |-> sent]
        ELSE [threw |-> FALSE, rateLimits |-> usageResponse,
              updatedTokens |-> IF refreshing THEN refreshed ELSE None,
              requests |-> sent]

\* fetchRateLimitsForAccount at Date.now() = t, with the responses the two
\* endpoints give. `threw` is a rejected promise, which carries neither
\* rateLimits nor updatedTokens; `requests` is what was sent, in order.
fetchRateLimitsForAccount(account, t, refreshResponse, usageResponse) ==
    LET refreshing == /\ isTokenExpired(account.tokens.expiresAt, t)
                      /\ Truthy(account.tokens.refreshToken)
        refreshed  == refreshTokens(Val(account.tokens.refreshToken), refreshResponse, t)
        refreshRequest ==
            Request("refresh", Val(account.tokens.refreshToken), refreshResponse)
        tokens == IF refreshing THEN Val(refreshed) ELSE account.tokens
        sent == (IF refreshing THEN <<refreshRequest>> ELSE <<>>)
                    \o <<Request("usage", tokens.accessToken, usageResponse)>>
    IN  IF refreshing /\ refreshed = None
        THEN [threw |-> TRUE, rateLimits |-> None, updatedTokens |-> None,
              requests |-> <<refreshRequest>>]
        ELSE IF usageResponse = None
        THEN [threw |-> TRUE, rateLimits |-> None, updatedTokens |-> None,
              requests |-> sent]
        ELSE [threw |-> FALSE, rateLimits |-> usageResponse,
              updatedTokens |-> IF refreshing THEN refreshed ELSE None,
              requests |-> sent]

\* CodexAccountManager.refreshAccountQuota with the token pairs kept:
\* `saved` tells whether save() was reached.
refreshAccountQuotaWithTokens(s, accountId, t, refreshResponse, usageResponse) ==
    LET i == FindIndex(s.accounts, accountId) IN
    IF i = 0
    THEN [storage |-> s, saved |-> FALSE, threw |-> FALSE, requests |-> <<>>]
    ELSE
    LET fetched == fetchRateLimitsForAccount(s.accounts[i], t,
                                             refreshResponse, usageResponse)
        s1 == IF fetched.updatedTokens # None
              THEN [s EXCEPT !.accounts[i].tokens = Val(fetched.updatedTokens)]
              ELSE s
    IN  IF fetched.threw
        THEN [storage |-> s, saved |-> FALSE, threw |-> TRUE,
              requests |-> fetched.requests]
        ELSE [storage |-> updateAccountRateLimits(s1, accountId, Val(fetched.rateLimits)),
              saved |-> TRUE, threw |-> FALSE, requests |-> fetched.requests]

\* The token pair createAccountFromRefreshToken gives an account.
createAccountFromRefreshToken(refreshToken) == Tokens("", Some(refreshToken), Some(0))

(***************************************************************************)
(* The token lifecycle as a state machine: accounts are added by the CLI,  *)
(* their quota is fetched one account at a time, and the clock advances.   *)
(***************************************************************************)
\* The largest collection of the token model.
MaxTokenAccounts == 1

TokenAccountIds == 1..MaxTokenAccounts

\* Date.now() at the start and after each advance of the clock.
ClockValues == {100000, 200000, 300000}

\* What the token endpoint answers to a refresh: None for a response that
\* is not 2xx.
RefreshResponses ==
    {None} \cup { Some(TokenResponse("at1", rt, ei))
                    : rt \in {None, Some("rt1")}, ei \in {None, Some(120)} }

\* What the usage endpoint answers: None for a response that is not 2xx.
UsageResponses == {None, Some(Snapshot(Some(Window(85)), None))}

\* The token pairs migrateStorage gives the account of a legacy store whose
\* refreshToken is missing: one past expiresAtMs - 60 s at the start, one
\* without expiresAtMs.
LegacyTokens == {Tokens("at0", None, Some(130000)), Tokens("at0", None, None)}

\* The token pair importFromOpenCodeAuth reads from auth.json, expiring 30
\* seconds after t.
importFromOpenCodeAuth(t) == Tokens("at0", Some("rt0"), Some(t + 30000))

InitTokens ==
    /\ storage \in {createDefaultStorage}
          \cup { [createDefaultStorage EXCEPT !.accounts = <<Account(1, tok, None)>>]
                    : tok \in LegacyTokens }
    /\ disk = storage
    /\ result = NoResult
    /\ InitQuotaIdle
    /\ call = None
    /\ now = 100000
    /\ requests = <<>>
    /\ attempts = <<>>
    /\ InitPluginIdle

TokCmdAddToken ==
    \E id \in TokenAccountIds :
        LET added == cmdAddToken(storage,
                                 Account(id, createAccountFromRefreshToken("rt0"), None))
        IN  /\ CanAddNew(id, MaxTokenAccounts)
            /\ storage' = added.storage
            /\ disk' = added.storage
            /\ result' = added.result
            /\ requests' = <<>>
            /\ UNCHANGED <<quotaVars, call, now, attempts, pluginVars>>

TokCmdImport ==
    \E id \in TokenAccountIds :
        LET imported == cmdImport(storage, Account(id, importFromOpenCodeAuth(now), None))
        IN  /\ CanImport(id, MaxTokenAccounts)
            /\ storage' = imported.storage
            /\ disk' = imported.storage
            /\ result' = imported.result
            /\ requests' = <<>>
            /\ UNCHANGED <<quotaVars, call, now, attempts, pluginVars>>

TokRefreshAccountQuota ==
    \E id \in TokenAccountIds, refreshResponse \in RefreshResponses,
       usageResponse \in UsageResponses :
        LET done == refreshAccountQuotaWithTokens(storage, id, now,
                                                  refreshResponse, usageResponse)
        IN  /\ storage' = done.storage
            /\ disk' = IF done.saved THEN done.storage ELSE disk
            /\ result' = [Returned("refreshAccountQuota", id, FALSE, Undefined,
                                   Undefined, "") EXCEPT !.threw = done.threw]
            /\ requests' = done.requests
            /\ UNCHANGED <<quotaVars, call, now, attempts, pluginVars>>

\* Time passes between two operations: what the last one returned and sent
\* is no longer looked at.
Tick ==
    /\ \E t \in ClockValues : t > now /\ now' = t
    /\ result' = NoResult
    /\ requests' = <<>>
    /\ UNCHANGED <<storage, quotaVars, call, disk, attempts, pluginVars>>

NextTokens ==
    \/ TokCmdAddToken
    \/ TokCmdImport
    \/ TokRefreshAccountQuota
    \/ Tick

SpecTokens == InitTokens /\ [][NextTokens]_vars

(***************************************************************************)
(* Vocabulary of the token properties.                                     *)
(***************************************************************************)
\* A step of refreshAccountQuota for an account of the collection.
FetchStep ==
    /\ result'.op = "refreshAccountQuota"
    /\ FindIndex(storage.accounts, result'.accountId) > 0

\* The token pair the account had when the fetch of a FetchStep began.
FetchedTokens ==
    storage.accounts[FindIndex(storage.accounts, result'.accountId)].tokens

\* The positions of the requests of one kind in a sequence of requests.
RequestsOf(kind, sent) == {k \in DOMAIN sent : sent[k].kind = kind}

(***************************************************************************)
(* C12                                                                     *)
(***************************************************************************)
C12_Step ==
    FetchStep =>
        LET tok  == FetchedTokens
            due  == /\ isTokenExpired(tok.expiresAt, now)
                    /\ Truthy(tok.refreshToken)
            sent == requests'
        IN  /\ due =>
                  /\ Cardinality(RequestsOf("refresh", sent)) = 1
                  /\ sent[1].kind = "refresh"
                  /\ sent[1].token = Val(tok.refreshToken)
                  /\ Cardinality(RequestsOf("usage", sent)) <= 1
                  /\ sent[1].response # None =>
                        /\ Len(sent) = 2
                        /\ sent[2].kind = "usage"
                        /\ sent[2].token = Val(sent[1].response).access_token
                  /\ sent[1].response = None => Len(sent) = 1
            /\ ~due =>
                  /\ RequestsOf("refresh", sent) = {}
                  /\ Len(sent) = 1
                  /\ sent[1].kind = "usage"
                  /\ sent[1].token = tok.accessToken

C13_RefreshedOnFirstUse ==
    /\ \A k \in DOMAIN requests :
          requests[k].kind = "usage" => requests[k].token # ""
    /\ LET i == FindIndex(storage.accounts, result.accountId)
       IN  (/\ result.op = "refreshAccountQuota"
            /\ i > 0
            /\ storage.accounts[i].tokens.accessToken = ""
            /\ requests # <<>>)
           => requests[1].kind = "refresh"

\* The quota fetch of an account that add-token created sent the usage
\* request first, with the empty access token, and no refresh.
C13_Witness ==
    /\ result.op = "refreshAccountQuota"
    /\ LET i == FindIndex(storage.accounts, result.accountId)
       IN  /\ i > 0
           /\ storage.accounts[i].tokens = createAccountFromRefreshToken("rt0")
    /\ Len(requests) = 1
    /\ requests[1].kind = "usage"
    /\ requests[1].token = ""

(***************************************************************************)
(* C14                                                                     *)
(***************************************************************************)
\* The last operation was a quota refresh whose token refresh succeeded.
RefreshSucceeded ==
    /\ result.op = "refreshAccountQuota"
    /\ requests # <<>>
    /\ requests[1].kind = "refresh"
    /\ requests[1].response # None

\* C14: whenever a token refresh succeeds during a quota refresh of an
\* account, that account's stored token pair (in memory and in the
\* persisted store) becomes the new pair and the old access token is
\* discarded, whether or not the usage request that follows the refresh
\* succeeds.
C14_RefreshedPairStored ==
    RefreshSucceeded =>
        LET i    == FindIndex(storage.accounts, result.accountId)
            pair == Val(refreshTokens(requests[1].token, requests[1].response, now))
        IN  /\ i > 0
            /\ storage.accounts[i].tokens = pair
            /\ FindIndex(disk.accounts, result.accountId) = i
            /\ disk.accounts[i].tokens = pair

\* A token refresh succeeded, the usage request after it failed, and the
\* account still holds the access token it had before.
C14_Witness ==
    /\ RefreshSucceeded
    /\ Len(requests) = 2
    /\ requests[2].response = None
    /\ result.threw
    /\ LET i == FindIndex(storage.accounts, result.accountId)
       IN  /\ storage.accounts[i].tokens.accessToken = "at0"
           /\ disk.accounts[i].tokens.accessToken = "at0"
           /\ Val(requests[1].response).access_token # "at0"

(***************************************************************************)
(* C15                                                                     *)
(***************************************************************************)
\* The refresh token a successful refresh must leave: the response's when
\* it carries one, the submitted one otherwise.
KeptRefreshToken(submitted, response) ==
    IF Val(response).refresh_token # None
    THEN Val(response).refresh_token
    ELSE Some(submitted)

\* Every refresh of a stored refresh token that the token endpoint may
\* answer yields a pair with the right refresh token.
C15_State ==
    \A i \in 1..Len(storage.accounts), response \in RefreshResponses \ {None} :
        LET tok == storage.accounts[i].tokens
        IN  Truthy(tok.refreshToken) =>
              LET pair == Val(refreshTokens(Val(tok.refreshToken), response, now))
              IN  /\ pair.refreshToken = KeptRefreshToken(Val(tok.refreshToken), response)
                  /\ Truthy(pair.refreshToken)
                  /\ pair.accessToken = Val(response).access_token

\* A quota refresh that refreshed the tokens and completed stores a pair
\* with the right refresh token, and no step takes a refresh token away
\* from an account that has one.
C15_Step ==
    /\ (/\ FetchStep
        /\ ~result'.threw
        /\ requests'[1].kind = "refresh")
       => LET i == FindIndex(storage.accounts, result'.accountId)
          IN  storage'.accounts[i].tokens.refreshToken
                = KeptRefreshToken(requests'[1].token, requests'[1].response)
    /\ \A i \in 1..Len(storage.accounts) :
          (/\ Truthy(storage.accounts[i].tokens.refreshToken)
           /\ i <= Len(storage'.accounts)
           /\ storage'.accounts[i].id = storage.accounts[i].id)
          => Truthy(storage'.accounts[i].tokens.refreshToken)

\* C15: a successful token refresh whose response omits refresh_token
\* yields a token pair carrying the refresh token that was submitted; when
\* the response includes one, the pair carries the new one. Hence an account
\* that has a refresh token still has one after any number of successful
\* refreshes.
C15_RefreshTokenRetained == []C15_State /\ [][C15_Step]_vars

\* A refresh whose response omitted refresh_token went through: the account
\* holds the new access token and the refresh token it submitted.
C15_Witness ==
    /\ RefreshSucceeded
    /\ ~result.threw
    /\ Val(requests[1].response).refresh_token = None
    /\ LET i == FindIndex(storage.accounts, result.accountId)
       IN  /\ storage.accounts[i].tokens.refreshToken = Some(requests[1].token)
           /\ storage.accounts[i].tokens.accessToken
                 = Val(requests[1].response).access_token
           /\ storage.accounts[i].tokens.accessToken = "at1"

(***************************************************************************)
(* oauth: the callback server                                              *)
(***************************************************************************)
\* What the promise of startCallbackServer settles with: the authorization
\* result when kind is "Authorized", the rejection otherwise.
Outcome(kind, code, state, description) ==
    [kind |-> kind, code |-> code, state |-> state, description |-> description]

\* An HTTP request to the callback server: its path and the query
\* parameters the handler reads, each absent or present.
CallbackRequest(path, code, state, error, errorDescription) ==
    [ path |-> path, code |-> code, state |-> state, error |-> error,
      errorDescription |-> errorDescription ]

\* What a run of a handler did, in order: a response, server.close(), or a
\* call of resolve or reject.
Respond(status, page) == [effect |-> "respond", status |-> status, page |-> page]

Effect(name) == [effect |-> name, status |-> 0, page |-> ""]

\* One performLogin call with the server it started.  server is the state of
\* the http.Server, timer whether the timeout is pending, wait the
\* settlement of the promise (None while it is pending).
Attempt(pc, server, timer, wait, exchange, error) ==
    [ pc |-> pc, server |-> server, timer |-> timer, wait |-> wait,
      exchange |-> exchange, error |-> error ]

IdleAttempt == Attempt("idle", "none", FALSE, None, None, "")

\* server.close(): a listening server stops accepting connections; its
\* 'close' event comes later, when the open connections have ended.
serverClose(att) ==
    IF att.server = "listening" THEN [att EXCEPT !.server = "closing"] ELSE att

\* resolve or reject: only the first call settles the promise.
settle(att, outcome) ==
    IF att.wait = None THEN [att EXCEPT !.wait = Some(outcome)] ELSE att

\* The request handler with a defect: the state of the request is not
\* compared with the expected state.
onRequest_NoStateCheck(att, expectedState, req) ==
    IF req.path # "/callback"
    THEN [attempt |-> att, effects |-> <<Respond(404, "Not Found")>>]
    ELSE IF Truthy(req.error)
    THEN LET errorDesc == IF Truthy(req.errorDescription)
                          THEN Val(req.errorDescription) ELSE Val(req.error)
         IN [ attempt |-> settle(serverClose(att),
                                 Outcome("AuthorizationDenied", None, None, errorDesc)),
              effects |-> <<Respond(400, errorDesc), Effect("close"), Effect("reject")>> ]
    ELSE IF ~Truthy(req.code) \/ ~Truthy(req.state)
    THEN [ attempt |-> settle(serverClose(att),
                              Outcome("MalformedCallback", None, None,
                                      "Missing code or state in callback")),
           effects |-> <<Respond(400, "Missing code or state"), Effect("close"),
                         Effect("reject")>> ]
    ELSE [ attempt |-> settle(serverClose(att),
                              Outcome("Authorized", req.code, req.state, "")),
           effects |-> <<Respond(200, "success"), Effect("close"),
                         Effect("resolve")>> ]

\* The request handler of the callback server.
onRequest(att, expectedState, req) ==
    IF req.path # "/callback"
    THEN [attempt |-> att, effects |-> <<Respond(404, "Not Found")>>]
    ELSE IF Truthy(req.error)
    THEN LET errorDesc == IF Truthy(req.errorDescription)
                          THEN Val(req.errorDescription) ELSE Val(req.error)
         IN [ attempt |-> settle(serverClose(att),
                                 Outcome("AuthorizationDenied", None, None, errorDesc)),
              effects |-> <<Respond(400, errorDesc), Effect("close"), Effect("reject")>> ]
    ELSE IF ~Truthy(req.code) \/ ~Truthy(req.state)
    THEN [ attempt |-> settle(serverClose(att),
                              Outcome("MalformedCallback", None, None,
                                      "Missing code or state in callback")),
           effects |-> <<Respond(400, "Missing code or state"), Effect("close"),
                         Effect("reject")>> ]
    ELSE IF Val(req.state) # expectedState
    THEN [ attempt |-> settle(serverClose(att),
                              Outcome("StateMismatch", None, None,
                                      "State mismatch - possible CSRF attack")),
           effects |-> <<Respond(400, "State mismatch"), Effect("close"),
                         Effect("reject")>> ]
    ELSE [ attempt |-> settle(serverClose(att),
                              Outcome("Authorized", req.code, req.state, "")),
           effects |-> <<Respond(200, "success"), Effect("close"),
                         Effect("resolve")>> ]

\* The timeout callback with a defect: the server is closed and the promise
\* is left pending.
onTimeout_NoReject(att) == [serverClose(att) EXCEPT !.timer = FALSE]

\* The timeout callback: once it runs the timer is no longer pending.
onTimeout(att) ==
    settle([serverClose(att) EXCEPT !.timer = FALSE],
           Outcome("AuthorizationTimeout", None, None, "Authorization timeout"))

\* The 'close' event of the server.
onClose(att) == [att EXCEPT !.server = "closed", !.timer = FALSE]

\* The 'error' handler with a defect: the timer is left pending.
onError_TimerLeft(att) ==
    settle([att EXCEPT !.server = "failed"],
           Outcome("ListenerBindFailed", None, None, "Failed to start callback server"))

\* The 'error' event of the server: listen() could not bind the port.
onError(att) ==
    settle([att EXCEPT !.server = "failed", !.timer = FALSE],
           Outcome("ListenerBindFailed", None, None, "Failed to start callback server"))

\* The synchronous body of startCallbackServer: the server is created, the
\* timer armed and listen() called; the bind result is a later event.
startCallbackServer(att) ==
    [att EXCEPT !.server = "binding", !.timer = TRUE, !.wait = None]

(***************************************************************************)
(* oauth: performLogin, and the manager's login around it                  *)
(***************************************************************************)
\* The login attempts: a first, and a second made while the first runs.
Attempts == {1, 2}

\* generateState and generateCodeVerifier: random values, one per attempt.
generateState(a) == IF a = 1 THEN "state1" ELSE "state2"

generateCodeVerifier(a) == a

\* generateAccountId for the account of an attempt.
generateAccountId(a) == a

\* A state value no attempt generated.
ForgedState == "forged"

\* The id of an account stored before any of the attempts.
PriorAccountId == 3

OptionalOf(S) == {None} \cup {Some(v) : v \in S}

\* The requests a browser or any local process can send to the server of
\* an attempt: one to another path, and to the callback path every
\* combination of a code, a state (absent, foreign or the expected one) and
\* an error, with and without its description.
CallbackRequests(a) ==
    { CallbackRequest("/favicon.ico", None, None, None, None) }
    \cup { CallbackRequest("/callback", code, state, error, None) :
             code \in OptionalOf({"code"}),
             state \in OptionalOf({ForgedState, generateState(a)}),
             error \in OptionalOf({"access_denied"}) }
    \cup { CallbackRequest("/callback", None, Some(generateState(a)),
                           Some("access_denied"), Some("The user denied access")) }

\* The response of the token endpoint to the code exchange: 2xx or not.
ExchangeResponses == {TRUE, FALSE}

\* performLogin after the await of serverPromise: a rejection is thrown to
\* the caller of login, an authorization goes on to the code exchange.
awaitServer(att) ==
    IF Val(att.wait).kind = "Authorized"
    THEN [att EXCEPT !.pc = "exchanging"]
    ELSE [att EXCEPT !.pc = "failed", !.error = Val(att.wait).kind]

\* exchangeCodeForTokens with a defect: the status of the response is not
\* looked at.
exchangeCodeForTokens_IgnoresStatus(att, code, codeVerifier, ok) ==
    [att EXCEPT !.exchange = Some([code |-> code, codeVerifier |-> codeVerifier,
                                   ok |-> ok]),
                !.pc = "exchanged"]

\* exchangeCodeForTokens with the code of the callback and the verifier of
\* the attempt: a response that is not 2xx throws.
exchangeCodeForTokens(att, code, codeVerifier, ok) ==
    [att EXCEPT !.exchange = Some([code |-> code, codeVerifier |-> codeVerifier,
                                   ok |-> ok]),
                !.pc = IF ok THEN "exchanged" ELSE "failed",
                !.error = IF ok THEN "" ELSE "TokenExchangeFailed"]

PortHeld == \E a \in Attempts : attempts[a].server = "listening"

InitLogin ==
    /\ storage \in { createDefaultStorage,
                     addAccount(createDefaultStorage,
                                Account(PriorAccountId, ManagerTokens, None)) }
    /\ result = NoResult
    /\ InitQuotaIdle
    /\ call = None
    /\ disk = storage
    /\ now = 0
    /\ requests = <<>>
    /\ attempts = [a \in Attempts |-> IdleAttempt]
    /\ InitPluginIdle

\* login is called: performLogin runs up to its first await.
StartLogin(a) ==
    /\ attempts[a].pc = "idle"
    /\ \A b \in Attempts : b < a => attempts[b].pc # "idle"
    /\ attempts' = [attempts EXCEPT
                      ![a] = [startCallbackServer(@) EXCEPT !.pc = "opening"]]
    /\ call' = None
    /\ UNCHANGED <<storage, result, quotaVars, tokenVars, pluginVars>>

\* listen() binds the port, which no other listener holds.
ListenSucceeds(a) ==
    /\ attempts[a].server = "binding"
    /\ ~PortHeld
    /\ attempts' = [attempts EXCEPT ![a].server = "listening"]
    /\ call' = None
    /\ UNCHANGED <<storage, result, quotaVars, tokenVars, pluginVars>>

\* listen() fails: the port is held by another attempt or another program.
ListenFails(a) ==
    /\ attempts[a].server = "binding"
    /\ attempts' = [attempts EXCEPT ![a] = onError(@)]
    /\ call' = None
    /\ UNCHANGED <<storage, result, quotaVars, tokenVars, pluginVars>>

\* open() returns, or throws and performLogin with it; the server stays.
OpenBrowser(a) ==
    /\ attempts[a].pc = "opening"
    /\ \E ok \in BOOLEAN :
         attempts' = [attempts EXCEPT
                        ![a].pc = IF ok THEN "waiting" ELSE "failed",
                        ![a].error = IF ok THEN "" ELSE "OpenFailed"]
    /\ call' = None
    /\ UNCHANGED <<storage, result, quotaVars, tokenVars, pluginVars>>

\* A request reaches the server of the attempt: on a new connection while
\* it listens, on an open one while it closes.
HandleRequest(a) ==
    /\ attempts[a].server \in {"listening", "closing"}
    /\ \E req \in CallbackRequests(a) :
         attempts' = [attempts EXCEPT
                        ![a] = onRequest(@, generateState(a), req).attempt]
    /\ call' = None
    /\ UNCHANGED <<storage, result, quotaVars, tokenVars, pluginVars>>

\* The timer fires.
Timeout(a) ==
    /\ attempts[a].timer
    /\ attempts[a].server \in {"listening", "closing"}
    /\ attempts' = [attempts EXCEPT ![a] = onTimeout(@)]
    /\ call' = None
    /\ UNCHANGED <<storage, result, quotaVars, tokenVars, pluginVars>>

\* The connections of a closed server have ended.
CloseEvent(a) ==
    /\ attempts[a].server = "closing"
    /\ attempts' = [attempts EXCEPT ![a] = onClose(@)]
    /\ call' = None
    /\ UNCHANGED <<storage, result, quotaVars, tokenVars, pluginVars>>

\* performLogin resumes from the await of the settled serverPromise.
AwaitServer(a) ==
    /\ attempts[a].pc = "waiting"
    /\ attempts[a].wait # None
    /\ attempts' = [attempts EXCEPT ![a] = awaitServer(@)]
    /\ call' = None
    /\ UNCHANGED <<storage, result, quotaVars, tokenVars, pluginVars>>

\* The token endpoint answers the code exchange.
ExchangeCode(a) ==
    /\ attempts[a].pc = "exchanging"
    /\ \E ok \in ExchangeResponses :
         attempts' = [attempts EXCEPT
                        ![a] = exchangeCodeForTokens(@, Val(Val(@.wait).code),
                                                     generateCodeVerifier(a), ok)]
    /\ call' = None
    /\ UNCHANGED <<storage, result, quotaVars, tokenVars, pluginVars>>

\* performLogin returns, whether fetchUserInfo threw or not, and login adds
\* the account, saves, and fetches its quota.
CompleteLogin(a) ==
    /\ attempts[a].pc = "exchanged"
    /\ \E fetch \in StoreFetchOutcomes :
         LET r == login(storage, Account(generateAccountId(a), ManagerTokens, None),
                        fetch)
         IN /\ storage' = r.storage
            /\ result' = r.result
            /\ disk' = r.storage
            /\ requests' = <<Request("usage", ManagerTokens, fetch)>>
    /\ attempts' = [attempts EXCEPT ![a].pc = "done"]
    /\ call' = None
    /\ UNCHANGED <<quotaVars, now, pluginVars>>

NextLogin ==
    \E a \in Attempts :
        \/ StartLogin(a)
        \/ ListenSucceeds(a)
        \/ ListenFails(a)
        \/ OpenBrowser(a)
        \/ HandleRequest(a)
        \/ Timeout(a)
        \/ CloseEvent(a)
        \/ AwaitServer(a)
        \/ ExchangeCode(a)
        \/ CompleteLogin(a)

SpecLogin == InitLogin /\ [][NextLogin]_vars

(***************************************************************************)
(* One login attempt, with the request its server handled last and what   *)
(* the handler did kept in call                                            *)
(***************************************************************************)
ObservedRequest ==
    /\ attempts[1].server \in {"listening", "closing"}
    /\ \E req \in CallbackRequests(1) :
         LET handled == onRequest(attempts[1], generateState(1), req) IN
         /\ attempts' = [attempts EXCEPT ![1] = handled.attempt]
         /\ call' = Some([fn |-> "onRequest", args |-> <<req>>,
                          ret |-> handled.effects])
    /\ UNCHANGED <<storage, result, quotaVars, tokenVars, pluginVars>>

NextCallback ==
    \/ StartLogin(1)
    \/ ListenSucceeds(1)
    \/ ListenFails(1)
    \/ OpenBrowser(1)
    \/ ObservedRequest
    \/ Timeout(1)
    \/ CloseEvent(1)
    \/ AwaitServer(1)
    \/ ExchangeCode(1)
    \/ CompleteLogin(1)

SpecCallback == InitLogin /\ [][NextCallback]_vars

\* The bind result arrives, a pending timer fires, and the connections of
\* a closed server end.
FairCallback ==
    /\ WF_vars(ListenSucceeds(1) \/ ListenFails(1))
    /\ WF_vars(Timeout(1))
    /\ WF_vars(CloseEvent(1))

SpecCallbackFair == InitLogin /\ [][NextCallback]_vars /\ FairCallback

(***************************************************************************)
(* Vocabulary of the callback properties                                   *)
(***************************************************************************)
\* The request the server of the single attempt handled last, and what
\* the handler did.
Observed == call # None

ObservedReq == Val(call).args[1]

ObservedEffects == Val(call).ret

ClientError(effect) == effect.effect = "respond" /\ effect.status \in 400..499

\* The step is the handling of a request to the callback path while the
\* wait is pending.
CallbackHandled ==
    /\ call' # None
    /\ ObservedReq'.path = "/callback"
    /\ attempts[1].wait = None

(***************************************************************************)
(* C16                                                                     *)
(***************************************************************************)
\* C16: every request to the callback path that carries a state other than
\* the expected one, handled while the wait is pending, settles the wait
\* with StateMismatch and is answered with a 4xx response, whatever else
\* (error, code) the request carries or lacks.
C16_Step ==
    (/\ CallbackHandled
     /\ ObservedReq'.state # None
     /\ Val(ObservedReq'.state) # generateState(1))
    => /\ attempts'[1].wait # None
       /\ Val(attempts'[1].wait).kind = "StateMismatch"
       /\ ClientError(ObservedEffects'[1])

C16_StateCheckFirst == [][C16_Step]_vars

\* A request with a foreign state and an error was handled while the wait
\* was pending, and settled it.
C16_Witness ==
    /\ Observed
    /\ ObservedReq.path = "/callback"
    /\ ObservedReq.state = Some(ForgedState)
    /\ ObservedReq.error # None
    /\ ObservedEffects[Len(ObservedEffects)].effect = "reject"
    /\ attempts[1].pc = "waiting"
    /\ attempts[1].wait # None
    /\ Val(attempts[1].wait).kind = "AuthorizationDenied"

(***************************************************************************)
(* C17                                                                     *)
(***************************************************************************)
\* The position of the first effect of that name in a handler's run; 0 when
\* there is none.
FirstEffect(effects, name) ==
    IF \E i \in 1..Len(effects) : effects[i].effect = name
    THEN CHOOSE i \in 1..Len(effects) :
            /\ effects[i].effect = name
            /\ \A j \in 1..(i - 1) : effects[j].effect # name
    ELSE 0

\* The wait holds an authorization only for the expected state, with the
\* code of the request.
C17_State ==
    (attempts[1].wait # None /\ Val(attempts[1].wait).kind = "Authorized")
    => /\ Val(attempts[1].wait).state = Some(generateState(1))
       /\ Val(attempts[1].wait).code = Some("code")

C17_Step ==
    CallbackHandled =>
        LET req     == ObservedReq'
            effects == ObservedEffects'
            wait    == attempts'[1].wait
        IN  /\ wait # None
            /\ attempts'[1].server # "listening"
            /\ FirstEffect(effects, "close") > 0
            /\ IF req.error # None
               THEN /\ Val(wait).kind = "AuthorizationDenied"
                    /\ Val(wait).description =
                           (IF req.errorDescription # None
                            THEN Val(req.errorDescription) ELSE Val(req.error))
                    /\ ClientError(effects[1])
               ELSE IF req.code = None \/ req.state = None
               THEN /\ Val(wait).kind = "MalformedCallback"
                    /\ ClientError(effects[1])
               ELSE IF req.state = Some(generateState(1))
               THEN /\ Val(wait) = Outcome("Authorized", req.code, req.state, "")
                    /\ effects[1] = Respond(200, "success")
                    /\ FirstEffect(effects, "respond") < FirstEffect(effects, "resolve")
               ELSE Val(wait).kind # "Authorized"

\* C17: every request to the callback path, handled while the wait is
\* pending, settles the wait and closes the server: with
\* AuthorizationDenied and the provider's description when it carries
\* error; otherwise with MalformedCallback when code or state is missing;
\* with {code, state} when both are present and the state is the expected
\* one, the success page being sent before the promise is resolved.  A
\* code is yielded only for a request with the expected state.
C17_CallbackOutcomes == []C17_State /\ [][C17_Step]_vars

\* A request with a code and the expected state was handled: the page was
\* sent, the server closed and the wait resolved with the code.
C17_Witness ==
    /\ Observed
    /\ ObservedReq = CallbackRequest("/callback", Some("code"),
                                     Some(generateState(1)), None, None)
    /\ ObservedEffects = <<Respond(200, "success"), Effect("close"), Effect("resolve")>>
    /\ attempts[1].server = "closing"
    /\ attempts[1].wait = Some(Outcome("Authorized", Some("code"),
                                       Some(generateState(1)), ""))

(***************************************************************************)
(* C18                                                                     *)
(***************************************************************************)
WaitKinds ==
    { "Authorized", "AuthorizationDenied", "MalformedCallback", "StateMismatch",
      "AuthorizationTimeout", "ListenerBindFailed" }

\* The wait of the attempt has begun.
Started == attempts[1].pc # "idle"

\* The wait is settled, the server neither listens nor closes, and the
\* timer is not pending.
Terminated ==
    /\ attempts[1].wait # None
    /\ attempts[1].server \in {"closed", "failed"}
    /\ ~attempts[1].timer

C18_State ==
    attempts[1].wait # None =>
        LET kind == Val(attempts[1].wait).kind IN
        /\ kind \in WaitKinds
        /\ attempts[1].server \notin {"binding", "listening"}
        /\ kind = "ListenerBindFailed" =>
               attempts[1].server = "failed" /\ ~attempts[1].timer
        /\ kind = "AuthorizationTimeout" => ~attempts[1].timer

C18_Step ==
    \* a request to another path changes nothing
    /\ (call' # None /\ ObservedReq'.path # "/callback")
           => attempts' = attempts
    \* the timer firing on a pending wait settles it with the timeout
    /\ (/\ attempts[1].wait = None
        /\ attempts[1].timer
        /\ ~attempts'[1].timer
        /\ attempts'[1].server = "closing")
           => attempts'[1].wait =
                 Some(Outcome("AuthorizationTimeout", None, None,
                              "Authorization timeout"))

\* C18: the wait of a login always terminates: with the outcome of a
\* request to the callback path, with ListenerBindFailed, or, when the
\* timer fires first (requests to other paths change nothing), with
\* AuthorizationTimeout; after which the server is closed or never
\* listened, and the timer is not pending.
C18_WaitTerminates ==
    /\ []C18_State
    /\ [][C18_Step]_vars
    /\ (Started ~> Terminated)

\* The timer fired with no request to the callback path: the wait is
\* settled with the timeout, the server closed, the timer spent.
C18_Witness ==
    /\ Terminated
    /\ attempts[1].server = "closed"
    /\ Val(attempts[1].wait).kind = "AuthorizationTimeout"
    /\ attempts[1].pc = "failed"
    /\ attempts[1].error = "AuthorizationTimeout"

(***************************************************************************)
(* C19                                                                     *)
(***************************************************************************)
Listening == {a \in Attempts : attempts[a].server = "listening"}

BindFailed ==
    Outcome("ListenerBindFailed", None, None, "Failed to start callback server")

C19_State ==
    /\ Cardinality(Listening) <= 1
    /\ \A a \in Attempts :
          attempts[a].server = "failed" =>
              /\ ~attempts[a].timer
              /\ attempts[a].wait = Some(BindFailed)
              /\ attempts[a].pc \in {"opening", "waiting", "failed"}
              /\ attempts[a].pc = "failed" =>
                     attempts[a].error \in {"ListenerBindFailed", "OpenFailed"}

C19_Step ==
    \A a \in Attempts :
        \* while another attempt listens, the bind can only fail
        /\ (/\ attempts[a].server = "binding"
            /\ Listening \ {a} # {}
            /\ attempts'[a].server # "binding")
               => attempts'[a].server = "failed"
        \* listen() is not called again
        /\ attempts[a].server = "failed" => attempts'[a].server = "failed"

Added(a) == generateAccountId(a) \in IdSet(storage.accounts)

C20_State ==
    /\ disk = storage
    /\ \A a \in Attempts :
          /\ Added(a) =>
                /\ attempts[a].pc = "done"
                /\ attempts[a].wait # None
                /\ Val(attempts[a].wait).kind = "Authorized"
                /\ Val(attempts[a].wait).state = Some(generateState(a))
                /\ attempts[a].exchange =
                       Some([ code |-> Val(Val(attempts[a].wait).code),
                              codeVerifier |-> generateCodeVerifier(a),
                              ok |-> TRUE ])
          /\ attempts[a].pc = "failed" => ~Added(a)

C20_Step ==
    /\ \A a \in Attempts :
          (attempts[a].pc # "failed" /\ attempts'[a].pc = "failed")
              => storage' = storage /\ disk' = disk
    /\ (storage' # storage \/ disk' # disk) =>
          \E a \in Attempts :
              /\ attempts[a].pc = "exchanged"
              /\ attempts'[a].pc = "done"
              /\ IdSet(storage'.accounts) =
                    IdSet(storage.accounts) \cup {generateAccountId(a)}

\* C20: login adds an account only after the server of the attempt
\* received a callback with the state of the attempt and the exchange of
\* its code, sent with the verifier of the same attempt, was answered 2xx;
\* a login that fails (denied, malformed, state mismatch, timeout, bind
\* failure, exchange not 2xx) changes neither the collection, nor the
\* active pointer, nor the stored file.
C20_AddedOnlyAfterExchange == []C20_State /\ [][C20_Step]_vars

\* The first login succeeded and its account is stored; the second received
\* its callback, its exchange was answered non-2xx, and it added nothing.
C20_Witness ==
    /\ attempts[1].pc = "done"
    /\ Added(1)
    /\ attempts[2].pc = "failed"
    /\ attempts[2].error = "TokenExchangeFailed"
    /\ attempts[2].exchange # None
    /\ ~Val(attempts[2].exchange).ok
    /\ ~Added(2)
    /\ disk = storage

(***************************************************************************)
(* C21                                                                     *)
(***************************************************************************)
\* The step is the completion of the login of attempt a.
LoginCompletes(a) == attempts[a].pc = "exchanged" /\ attempts'[a].pc = "done"

\* The usage request sent last was answered non-2xx.
UsageFailed(sent) ==
    /\ Len(sent) = 1
    /\ sent[1].kind = "usage"
    /\ sent[1].response = None

AccountOf(s, id) == s.accounts[FindIndex(s.accounts, id)]

C21_Step ==
    \A a \in Attempts :
        (LoginCompletes(a) /\ UsageFailed(requests')) =>
            LET id == generateAccountId(a) IN
            /\ result' = Returned("login", id, FALSE, Undefined, Undefined, "")
            /\ id \in IdSet(storage'.accounts)
            /\ AccountOf(storage', id).rateLimits = None
            /\ id \in IdSet(disk'.accounts)
            /\ AccountOf(disk', id).rateLimits = None
            /\ IdSeq(storage'.accounts) = Append(IdSeq(storage.accounts), id)

\* C21: when the quota fetch that follows a successful login fails, login
\* still returns the new account, and the account is in the collection and
\* in the stored file, without a snapshot.
C21_QuotaFailureDoesNotBlockLogin == [][C21_Step]_vars

\* A login completed although its quota fetch failed: the account is
\* stored without a snapshot.
C21_Witness ==
    /\ attempts[1].pc = "done"
    /\ UsageFailed(requests)
    /\ result = Returned("login", generateAccountId(1), FALSE, Undefined, Undefined, "")
    /\ generateAccountId(1) \in IdSet(disk.accounts)
    /\ AccountOf(disk, generateAccountId(1)).rateLimits = None
    /\ attempts[2].pc = "idle"

(***************************************************************************)
(* quota/tracker: the usage response and the snapshot made from it         *)
(***************************************************************************)
\* RateLimitWindowResponse, CreditStatusResponse, RateLimitStatusResponse.
RateLimitWindowResponse(usedPercent, limitWindowSeconds, resetAt) ==
    [ used_percent |-> usedPercent, limit_window_seconds |-> limitWindowSeconds,
      reset_at |-> resetAt ]

CreditStatusResponse(hasCredits, unlimited, balance) ==
    [has_credits |-> hasCredits, unlimited |-> unlimited, balance |-> balance]

RateLimitStatusResponse(planType, rateLimit, credits) ==
    [plan_type |-> planType, rate_limit |-> rateLimit, credits |-> credits]

\* RateLimitWindow, CreditsSnapshot, RateLimitSnapshot with all its fields.
RateLimitWindow(usedPercent, windowMinutes, resetsAt) ==
    [usedPercent |-> usedPercent, windowMinutes |-> windowMinutes, resetsAt |-> resetsAt]

CreditsSnapshot(hasCredits, unlimited, balance) ==
    [hasCredits |-> hasCredits, unlimited |-> unlimited, balance |-> balance]

RateLimitSnapshot(planType, primary, secondary, credits) ==
    [ planType |-> planType, primary |-> primary, secondary |-> secondary,
      credits |-> credits ]

\* Math.ceil(n / d) for n >= 0.
Ceil(n, d) == (n + d - 1) \div d

\* A string of the response as the sequence of its characters.
UpperCaseLetters == <<"A", "B", "C", "D", "E", "F", "G", "H", "I", "J", "K", "L", "M", "N", "O", "P", "Q", "R", "S", "T", "U", "V", "W", "X", "Y", "Z">>

LowerCaseLetters == <<"a", "b", "c", "d", "e", "f", "g", "h", "i", "j", "k", "l", "m", "n", "o", "p", "q", "r", "s", "t", "u", "v", "w", "x", "y", "z">>

toLowerCaseChar(c) ==
    IF \E k \in 1..Len(UpperCaseLetters) : UpperCaseLetters[k] = c
    THEN LowerCaseLetters[CHOOSE k \in 1..Len(UpperCaseLetters) : UpperCaseLetters[k] = c]
    ELSE c

\* String.prototype.toLowerCase.
toLowerCase(str) == [k \in 1..Len(str) |-> toLowerCaseChar(str[k])]

\* The own properties of the mapping object of mapPlanType.
PlanMapping ==
    { <<<<"f", "r", "e", "e">>, "Free">>,
      <<<<"g", "o">>, "Go">>,
      <<<<"p", "l", "u", "s">>, "Plus">>,
      <<<<"p", "r", "o">>, "Pro">>,
      <<<<"t", "e", "a", "m">>, "Team">>,
      <<<<"b", "u", "s", "i", "n", "e", "s", "s">>, "Business">>,
      <<<<"e", "n", "t", "e", "r", "p", "r", "i", "s", "e">>, "Enterprise">>,
      <<<<"e", "d", "u">>, "Edu">>,
      <<<<"e", "d", "u", "c", "a", "t", "i", "o", "n">>, "Edu">> }

\* Properties the mapping object, an object literal, inherits from
\* Object.prototype: their values are functions or objects, not strings.
ObjectPrototype ==
    { <<<<"c", "o", "n", "s", "t", "r", "u", "c", "t", "o", "r">>, "[Function: Object]">>,
      <<<<"_", "_", "p", "r", "o", "t", "o", "_", "_">>, "[Object: null prototype] {}">>,
      <<<<"t", "o", "S", "t", "r", "i", "n", "g">>, "[Function: toString]">>,
      <<<<"v", "a", "l", "u", "e", "O", "f">>, "[Function: valueOf]">>,
      <<<<"h", "a", "s", "O", "w", "n", "P", "r", "o", "p", "e", "r", "t", "y">>, "[Function: hasOwnProperty]">> }

\* mapping[key]: an own property, else an inherited one, else undefined.
Lookup(own, inherited, key) ==
    IF \E e \in own : e[1] = key
    THEN Some((CHOOSE e \in own : e[1] = key)[2])
    ELSE IF \E e \in inherited : e[1] = key
    THEN Some((CHOOSE e \in inherited : e[1] = key)[2])
    ELSE None

mapPlanType(planType) ==
    LET found == Lookup(PlanMapping, ObjectPrototype, toLowerCase(planType))
    IN IF found # None THEN Val(found) ELSE "Unknown"

\* A window of the response as a window of the snapshot.
parseWindow(w) ==
    RateLimitWindow(w.used_percent, Ceil(w.limit_window_seconds, 60), w.reset_at)

\* response.rate_limit?.primary_window and ?.secondary_window.
primaryWindow(response) ==
    IF response.rate_limit = None THEN None ELSE Val(response.rate_limit).primary_window

secondaryWindow(response) ==
    IF response.rate_limit = None THEN None ELSE Val(response.rate_limit).secondary_window

parseRateLimitResponse(response) ==
    RateLimitSnapshot(
        mapPlanType(response.plan_type),
        IF primaryWindow(response) # None
        THEN Some(parseWindow(Val(primaryWindow(response)))) ELSE None,
        IF secondaryWindow(response) # None
        THEN Some(parseWindow(Val(secondaryWindow(response)))) ELSE None,
        IF response.credits # None
        THEN Some(CreditsSnapshot(Val(response.credits).has_credits,
                                  Val(response.credits).unlimited,
                                  Val(response.credits).balance))
        ELSE None)

\* CodexAccount with the time of its last quota fetch.
TimedAccount(id, tokens, rl, updatedAt) ==
    [id |-> id, tokens |-> tokens, rateLimits |-> rl, rateLimitsUpdatedAt |-> updatedAt]

Either(new, old) == IF new # None THEN new ELSE old

\* updateAccountRateLimits with a defect: a block the new snapshot lacks is
\* kept from the previous one.
updateAccountRateLimitsAt_Merged(s, accountId, rl, t) ==
    LET i == FindIndex(s.accounts, accountId) IN
    IF i = 0 THEN s
    ELSE LET old == s.accounts[i].rateLimits
             merged ==
                 IF old = None THEN rl
                 ELSE RateLimitSnapshot(rl.planType,
                                        Either(rl.primary, Val(old).primary),
                                        Either(rl.secondary, Val(old).secondary),
                                        Either(rl.credits, Val(old).credits))
         IN [s EXCEPT !.accounts[i].rateLimits = Some(merged),
                      !.accounts[i].rateLimitsUpdatedAt = t]

\* updateAccountRateLimits at Date.now() = t: the snapshot is assigned and
\* the time of the fetch written.
updateAccountRateLimitsAt(s, accountId, rl, t) ==
    LET i == FindIndex(s.accounts, accountId) IN
    IF i = 0 THEN s
    ELSE [updateAccountRateLimits(s, accountId, rl)
             EXCEPT !.accounts[i].rateLimitsUpdatedAt = t]

(***************************************************************************)
(* One successful usage fetch: the response is drawn and the stored        *)
(* snapshot of the account is the one before the fetch; then the response  *)
(* is parsed and stored.                                                   *)
(***************************************************************************)
UsedPercentValues == {0 - 5, 0, 42, 100, 150}

WindowResponses ==
    { RateLimitWindowResponse(u, 18000, 1700000000) : u \in UsedPercentValues }
    \cup { RateLimitWindowResponse(42, 90, 1700000000) }

RateLimitResponses ==
    {None}
    \cup { Some([primary_window |-> p, secondary_window |-> sw]) :
             p \in OptionalOf(WindowResponses),
             sw \in OptionalOf({ RateLimitWindowResponse(30, 604800, 1700500000),
                                 RateLimitWindowResponse(150, 604800, 1700500000) }) }

CreditResponses ==
    OptionalOf({ CreditStatusResponse(TRUE, FALSE, Some("12.5")),
                 CreditStatusResponse(FALSE, FALSE, None) })

UsageBodies ==
    { RateLimitStatusResponse(plan, rl, credits) :
        plan \in {<<"p", "l", "u", "s">>}, rl \in RateLimitResponses, credits \in CreditResponses }

\* The snapshot stored before the fetch: none, or one with every block.
PreviousSnapshots ==
    OptionalOf({ RateLimitSnapshot("Pro",
                                   Some(RateLimitWindow(10, 300, 1600000000)),
                                   Some(RateLimitWindow(20, 10080, 1600500000)),
                                   Some(CreditsSnapshot(TRUE, TRUE, Some("99")))) })

PreviousFetchTime == 100000

ParseAccountId == 1

InitParse ==
    /\ \E prev \in PreviousSnapshots :
         storage = addAccount(createDefaultStorage,
                              TimedAccount(ParseAccountId, ManagerTokens, prev,
                                           IF prev = None THEN Undefined
                                           ELSE PreviousFetchTime))
    /\ result = NoResult
    /\ InitQuotaIdle
    /\ call \in {Call("parseRateLimitResponse", <<body, storage>>) : body \in UsageBodies}
    /\ disk = storage
    /\ now = 200000
    /\ requests = <<>>
    /\ attempts = <<>>
    /\ InitPluginIdle

\* fetchRateLimits returns the parsed response, and refreshAccountQuota
\* stores it and saves.
StoreFetched ==
    /\ call.fn = "parseRateLimitResponse"
    /\ call.ret = None
    /\ LET rl == parseRateLimitResponse(call.args[1]) IN
       /\ call' = [call EXCEPT !.ret = Some(rl)]
       /\ storage' = updateAccountRateLimitsAt(storage, ParseAccountId, rl, now)
       /\ disk' = storage'
    /\ UNCHANGED <<result, quotaVars, now, requests, attempts, pluginVars>>

NextParse == StoreFetched

SpecParse == InitParse /\ [][NextParse]_vars

(***************************************************************************)
(* C24                                                                     *)
(***************************************************************************)
\* The account of the fetch, and what was stored for it before.
Fetched == call.ret # None

StoredAccount == AccountOf(storage, ParseAccountId)

PreviousAccount == AccountOf(call.args[2], ParseAccountId)

\* The stored window is the window of the response.
SameWindow(stored, sent) ==
    IF sent = None THEN stored = None
    ELSE /\ stored # None
         /\ Val(stored).usedPercent = Val(sent).used_percent
         /\ Val(stored).resetsAt = Val(sent).reset_at
         /\ Val(stored).windowMinutes * 60 >= Val(sent).limit_window_seconds
         /\ (Val(stored).windowMinutes - 1) * 60 < Val(sent).limit_window_seconds

\* C24: after a successful quota fetch the stored snapshot holds what the
\* response holds and nothing else: a window or credits block absent from
\* the response is absent from the snapshot whatever the previous snapshot
\* had, every block present is the one of the response, and the time of the
\* fetch is written.
C24_SnapshotReplaced ==
    Fetched =>
        LET body   == call.args[1]
            stored == StoredAccount.rateLimits
        IN  /\ stored # None
            /\ SameWindow(Val(stored).primary, primaryWindow(body))
            /\ SameWindow(Val(stored).secondary, secondaryWindow(body))
            /\ IF body.credits = None THEN Val(stored).credits = None
               ELSE Val(stored).credits =
                       Some(CreditsSnapshot(Val(body.credits).has_credits,
                                            Val(body.credits).unlimited,
                                            Val(body.credits).balance))
            /\ Val(stored).planType = "Plus"
            /\ StoredAccount.rateLimitsUpdatedAt = now
            /\ disk = storage

\* The previous snapshot had both windows and credits; the response had a
\* primary window only, and so has the stored snapshot.
C24_Witness ==
    /\ Fetched
    /\ PreviousAccount.rateLimits # None
    /\ Val(PreviousAccount.rateLimits).credits # None
    /\ Val(PreviousAccount.rateLimits).secondary # None
    /\ call.args[1].credits = None
    /\ primaryWindow(call.args[1]) # None
    /\ secondaryWindow(call.args[1]) = None
    /\ Val(StoredAccount.rateLimits).credits = None
    /\ Val(StoredAccount.rateLimits).secondary = None
    /\ Val(StoredAccount.rateLimits).primary # None
    /\ StoredAccount.rateLimitsUpdatedAt = now
    /\ PreviousAccount.rateLimitsUpdatedAt = PreviousFetchTime

(***************************************************************************)
(* C25                                                                     *)
(***************************************************************************)
\* The usedPercent values of a stored snapshot.
StoredPercents(rl) ==
    IF rl = None THEN {}
    ELSE {w.usedPercent : w \in Val(rl).primary \cup Val(rl).secondary}

\* C25: every usedPercent stored in the snapshot of an account lies in
\* [0,100], whatever used_percent the usage endpoint returned.
C25_StoredPercentInRange ==
    Fetched => \A u \in StoredPercents(StoredAccount.rateLimits) : u \in 0..100

\* The endpoint returned used_percent 150 for the primary window, and the
\* snapshot was stored from it.
C25_Witness ==
    /\ Fetched
    /\ primaryWindow(call.args[1]) # None
    /\ Val(primaryWindow(call.args[1])).used_percent = 150
    /\ StoredAccount.rateLimits # None
    /\ StoredAccount.rateLimitsUpdatedAt = now

(***************************************************************************)
(* accounts/storage: the sync of an account into OpenCode's auth.json      *)
(***************************************************************************)
\* An entry of auth.json: the fields syncToOpenCodeAuth writes for openai.
\* JSON.stringify leaves out a field that is undefined, here None.
AuthEntry(type, access, refresh, expires, accountId) ==
    [ type |-> type, access |-> access, refresh |-> refresh, expires |-> expires,
      accountId |-> accountId ]

\* What JSON.parse makes of the file: "garbage" when it throws, "scalar"
\* for a value that is not an object, "object" with the entries by key.
AuthJson(kind, entries) == [kind |-> kind, entries |-> entries]

\* CodexAccount with the ChatGPT account id that goes into auth.json.
SyncedAccount(id, tokens, rl, accountId) ==
    [id |-> id, tokens |-> tokens, rateLimits |-> rl, accountId |-> accountId]

OpenAiEntry(account) ==
    AuthEntry("oauth", account.tokens.accessToken, account.tokens.refreshToken,
              account.tokens.expiresAt, account.accountId)

\* syncToOpenCodeAuth with a defect: the file is written with the openai
\* entry alone.
syncToOpenCodeAuth_OpenAiOnly(file, account) ==
    Some(AuthJson("object", {<<"openai", OpenAiEntry(account)>>}))

\* syncToOpenCodeAuth: the file after the call. A missing or unparseable
\* file, and a parsed value that is not an object, count as {}.
syncToOpenCodeAuth(file, account) ==
    LET base == IF file # None /\ Val(file).kind = "object"
                THEN Val(file).entries ELSE {}
    IN Some(AuthJson("object",
                     {entry \in base : entry[1] # "openai"}
                         \cup {<<"openai", OpenAiEntry(account)>>}))

\* removeAccount and switchAccount after save(): the current account, if
\* there is one, is synced.
syncCurrent(s, file) ==
    IF getCurrentAccount(s) # 0
    THEN syncToOpenCodeAuth(file, s.accounts[getCurrentAccount(s)])
    ELSE file

\* checkAndRotate with a defect: a failed fetch is swallowed and the call
\* returns as if the current account were within quota.
checkAndRotateWithTokens_SwallowsFailure(s, t, refreshResponse, usageResponse) ==
    IF getCurrentAccount(s) = 0
    THEN checkAndRotate(s, usageResponse) @@ [requests |-> <<>>]
    ELSE LET refreshed ==
                 refreshAccountQuotaWithTokens(s, s.accounts[getCurrentAccount(s)].id,
                                               t, refreshResponse, usageResponse)
         IN IF refreshed.threw
            THEN [storage |-> s,
                  result |-> RotationResult("checkAndRotate", FALSE, Undefined,
                                            Undefined, "Current account within quota"),
                  requests |-> refreshed.requests]
            ELSE checkAndRotate(refreshed.storage, usageResponse)
                     @@ [requests |-> refreshed.requests]

\* checkAndRotate with the token pairs kept and the requests it sent.
checkAndRotateWithTokens(s, t, refreshResponse, usageResponse) ==
    IF getCurrentAccount(s) = 0
    THEN checkAndRotate(s, usageResponse) @@ [requests |-> <<>>]
    ELSE LET refreshed ==
                 refreshAccountQuotaWithTokens(s, s.accounts[getCurrentAccount(s)].id,
                                               t, refreshResponse, usageResponse)
         IN IF refreshed.threw
            THEN [storage |-> s, result |-> Threw("checkAndRotate"),
                  requests |-> refreshed.requests]
            ELSE checkAndRotate(refreshed.storage, usageResponse)
                     @@ [requests |-> refreshed.requests]

(***************************************************************************)
(* The manager's operations with auth.json                                 *)
(***************************************************************************)
MaxAuthAccounts == 2

AuthAccountIds == 1..MaxAuthAccounts

\* The access token the provider issues at the login of an account.
AccessTokens == <<"at1", "at2", "at3", "at4">>

TOKEN_LIFETIME_MS == 3600000

\* Date.now() at the start, and once the tokens issued at the start have
\* expired.
AuthClock == <<100000, 8000000>>

AuthRefreshResponses == {None, Some(TokenResponse("atR", None, Some(3600)))}

AuthUsageResponses == {None, Some(Snapshot(Some(Window(95)), None))}

\* auth.json before the plugin's first write.
AuthFiles ==
    { None,
      Some(AuthJson("garbage", {})),
      Some(AuthJson("scalar", {})),
      Some(AuthJson("object",
                    { <<"anthropic", AuthEntry("api", "sk-ant", None, None, None)>>,
                      <<"openai", AuthEntry("api", "sk-old", None, None, None)>> })) }

\* The account a login yields at Date.now() = t.
loginAccount(id, t) ==
    SyncedAccount(id, Tokens(AccessTokens[id], Some("rt"), Some(t + TOKEN_LIFETIME_MS)),
                  None, Some(id))

Done(op) == [NoResult EXCEPT !.op = op]

InitAuth ==
    /\ storage = createDefaultStorage
    /\ result = NoResult
    /\ InitQuotaIdle
    /\ call = None
    /\ disk = storage
    /\ now = AuthClock[1]
    /\ requests = <<>>
    /\ attempts = <<>>
    /\ inflight = {}
    /\ plugin = [timer |-> "idle", toast |-> "idle"]
    /\ auth \in AuthFiles

AuthLogin ==
    \E id \in AuthAccountIds, fetch \in AuthUsageResponses :
        /\ FindIndex(storage.accounts, id) = 0
        /\ storage' = login(storage, loginAccount(id, now), fetch).storage
        /\ auth' = syncToOpenCodeAuth(auth, loginAccount(id, now))
        /\ result' = Done("login")
        /\ disk' = storage'
        /\ requests' = <<Request("usage", AccessTokens[id], fetch)>>
        /\ UNCHANGED <<quotaVars, call, now, attempts, inflight, plugin>>

AuthRemoveAccount ==
    \E id \in AuthAccountIds :
        /\ storage' = removeAccount(storage, id)
        /\ auth' = syncCurrent(storage', auth)
        /\ result' = Done("removeAccount")
        /\ disk' = storage'
        /\ requests' = <<>>
        /\ UNCHANGED <<quotaVars, call, now, attempts, inflight, plugin>>

AuthSwitchAccount ==
    \E id \in AuthAccountIds :
        /\ storage' = switchAccount(storage, id)
        /\ auth' = syncCurrent(storage', auth)
        /\ result' = Done("switchAccount")
        /\ disk' = storage'
        /\ requests' = <<>>
        /\ UNCHANGED <<quotaVars, call, now, attempts, inflight, plugin>>

AuthRotate ==
    /\ storage' = rotate(storage).storage
    /\ auth' = IF rotate(storage).result.rotated
               THEN syncCurrent(storage', auth) ELSE auth
    /\ result' = rotate(storage).result
    /\ disk' = storage'
    /\ requests' = <<>>
    /\ UNCHANGED <<quotaVars, call, now, attempts, inflight, plugin>>

AuthRefreshAccountQuota ==
    \E id \in AuthAccountIds, refreshResponse \in AuthRefreshResponses,
       usageResponse \in AuthUsageResponses :
        LET r == refreshAccountQuotaWithTokens(storage, id, now,
                                               refreshResponse, usageResponse)
        IN /\ FindIndex(storage.accounts, id) > 0
           /\ storage' = r.storage
           /\ result' = IF r.threw THEN Threw("refreshAccountQuota")
                        ELSE Done("refreshAccountQuota")
           /\ disk' = storage'
           /\ requests' = r.requests
           /\ UNCHANGED <<quotaVars, call, now, attempts, pluginVars>>

AuthCheckAndRotate ==
    \E refreshResponse \in AuthRefreshResponses, usageResponse \in AuthUsageResponses :
        LET r == checkAndRotateWithTokens(storage, now, refreshResponse, usageResponse)
        IN /\ storage' = r.storage
           /\ auth' = IF r.result.rotated THEN syncCurrent(storage', auth) ELSE auth
           /\ result' = r.result
           /\ disk' = storage'
           /\ requests' = r.requests
           /\ UNCHANGED <<quotaVars, call, now, attempts, inflight, plugin>>

AuthUpdateSettings ==
    \E thr \in Thresholds :
        /\ storage' = updateSettings(storage, thr)
        /\ result' = Done("updateSettings")
        /\ disk' = storage'
        /\ requests' = <<>>
        /\ UNCHANGED <<quotaVars, call, now, attempts, pluginVars>>

\* Time passes until the tokens issued at the start have expired.
AuthTick ==
    /\ now = AuthClock[1]
    /\ now' = AuthClock[2]
    /\ UNCHANGED <<managerVars, quotaVars, call, disk, requests, attempts, pluginVars>>

NextAuth ==
    \/ AuthLogin
    \/ AuthRemoveAccount
    \/ AuthSwitchAccount
    \/ AuthRotate
    \/ AuthRefreshAccountQuota
    \/ AuthCheckAndRotate
    \/ AuthUpdateSettings
    \/ AuthTick

SpecAuth == InitAuth /\ [][NextAuth]_vars

(***************************************************************************)
(* Properties of the sync into auth.json                                   *)
(***************************************************************************)
ManagerOps ==
    {"login", "removeAccount", "switchAccount", "rotate", "checkAndRotate",
     "refreshAccountQuota"}

ActiveAccount == storage.accounts[getCurrentAccount(storage)]

\* auth.json is an object whose openai entry holds the credentials stored
\* for `account`.
AuthHolds(file, account) ==
    /\ file # None
    /\ Val(file).kind = "object"
    /\ <<"openai", OpenAiEntry(account)>> \in Val(file).entries

\* The entries of a parseable auth.json other than openai.
OtherEntries(file) ==
    IF file # None /\ Val(file).kind = "object"
    THEN {entry \in Val(file).entries : entry[1] # "openai"}
    ELSE {}

\* C27: after every manager operation that completed (login, removeAccount,
\* switchAccount, rotate, checkAndRotate, refreshAccountQuota), the openai
\* entry of auth.json holds the access token, refresh token, expiry and
\* account id stored for the active account.
C27_AuthMatchesActive ==
    (/\ result.op \in ManagerOps
     /\ ~result.threw
     /\ getCurrentAccount(storage) # 0)
        => AuthHolds(auth, ActiveAccount)

\* A second login has completed: the first account is still the active one
\* and auth.json holds the credentials of the account just added.
C27_Witness ==
    /\ result.op = "login"
    /\ Len(storage.accounts) = 2
    /\ getCurrentAccount(storage) = 1
    /\ AuthHolds(auth, storage.accounts[2])
    /\ ~AuthHolds(auth, ActiveAccount)

\* C28: a sync into auth.json changes the openai entry only: every other
\* provider entry of a parseable auth.json is there with the same value after
\* the sync, and no entry other than openai appears.
C28_Step == OtherEntries(auth') = OtherEntries(auth)

C28_SyncKeepsOtherProviders == [][C28_Step]_vars

\* The active account has been synced into an auth.json that held an entry of
\* another provider and an openai entry of another kind.
C28_Witness ==
    /\ result.op = "switchAccount"
    /\ getCurrentAccount(storage) # 0
    /\ AuthHolds(auth, ActiveAccount)
    /\ OtherEntries(auth) # {}

\* The requests end with a usage request answered with a status that is
\* not 2xx.
UsageRefused(sent) ==
    /\ Len(sent) > 0
    /\ sent[Len(sent)].kind = "usage"
    /\ sent[Len(sent)].response = None

UsageRequests(sent) == {k \in 1..Len(sent) : sent[k].kind = "usage"}

\* C23: when the usage request of refreshAccountQuota or of checkAndRotate is
\* answered with a status that is not 2xx, the operation throws the
\* quota-fetch error, has sent one usage request only, and leaves the store
\* (every snapshot, every rateLimitsUpdatedAt, the active pointer) and the
\* file as they were.
C23_Step ==
    (/\ result'.op \in {"refreshAccountQuota", "checkAndRotate"}
     /\ now' = now
     /\ UsageRefused(requests'))
        => /\ result' = Threw(result'.op)
           /\ Cardinality(UsageRequests(requests')) = 1
           /\ storage' = storage
           /\ disk' = disk

C23_UsageFailureLeavesStore == [][C23_Step]_vars

\* checkAndRotate has thrown on a refused usage request while the store holds
\* two accounts and a snapshot of the active one.
C23_Witness ==
    /\ result = Threw("checkAndRotate")
    /\ UsageRefused(requests)
    /\ Len(storage.accounts) = 2
    /\ getCurrentAccount(storage) # 0
    /\ ActiveAccount.rateLimits # None

(***************************************************************************)
(* The plugin: the auto-refresh timer of startAutoRefresh and the periodic *)
(* showQuotaToast run on one event loop. A call of refreshAccountQuota is  *)
(* in flight from its first await to the answer of the usage endpoint;     *)
(* what follows an answer runs to the next await without interleaving.     *)
(***************************************************************************)
\* CodexAccount as the plugin loads it.
PluginAccount(id, tokens, rl, updatedAt, accountId) ==
    [ id |-> id, tokens |-> tokens, rateLimits |-> rl,
      rateLimitsUpdatedAt |-> updatedAt, accountId |-> accountId ]

\* A call of refreshAccountQuota in flight: who made it, the account object
\* it captured, the request it waits for, the tokens it sends, the tokens
\* it has refreshed, and whether the captured object is still the one in
\* this.storage.
RefreshCall(origin, accountId, phase, tokens, updatedTokens, attached) ==
    [ origin |-> origin, accountId |-> accountId, phase |-> phase, tokens |-> tokens,
      updatedTokens |-> updatedTokens, attached |-> attached ]

\* refreshAccountQuota up to its first await.
startRefreshAccountQuota(account, origin, t) ==
    RefreshCall(origin, account.id,
                IF /\ isTokenExpired(account.tokens.expiresAt, t)
                   /\ Truthy(account.tokens.refreshToken)
                THEN "refresh" ELSE "usage",
                account.tokens, None, TRUE)

\* fetchRateLimitsForAccount after the token endpoint answered: None when
\* refreshTokens throws.
onRefreshResponse(c, response, t) ==
    LET refreshed == refreshTokens(Val(c.tokens.refreshToken), response, t) IN
    IF refreshed = None THEN None
    ELSE Some([c EXCEPT !.phase = "usage", !.tokens = Val(refreshed),
                        !.updatedTokens = refreshed])

\* refreshAccountQuota after the usage endpoint answered, with a defect: an
\* account that is no longer in the collection is added again with the
\* fetched snapshot.
completeRefreshAccountQuota_AddsMissing(s, c, rl, t) ==
    IF FindIndex(s.accounts, c.accountId) > 0
    THEN updateAccountRateLimitsAt(s, c.accountId, rl, t)
    ELSE updateAccountRateLimitsAt(
             addAccount(s, PluginAccount(c.accountId, c.tokens, None, Undefined,
                                         Some(c.accountId))),
             c.accountId, rl, t)

\* refreshAccountQuota after the usage endpoint answered with `rl`: the
\* refreshed tokens are assigned to the captured account object, the
\* snapshot to the account of this.storage with the id.
completeRefreshAccountQuota(s, c, rl, t) ==
    LET i == FindIndex(s.accounts, c.accountId)
        s1 == IF c.updatedTokens # None /\ c.attached /\ i > 0
              THEN [s EXCEPT !.accounts[i].tokens = Val(c.updatedTokens)]
              ELSE s
    IN updateAccountRateLimitsAt(s1, c.accountId, rl, t)

\* reload(): this.storage is a new object graph, and the account objects the
\* calls in flight captured are no longer part of it.
reload(calls) == {[c EXCEPT !.attached = FALSE] : c \in calls}

\* refreshAllQuotas up to Promise.all.
refreshAllQuotas(s, origin, t) ==
    {startRefreshAccountQuota(s.accounts[i], origin, t) : i \in 1..Len(s.accounts)}

\* The try/catch around a call of the sweep with a defect: the error is
\* thrown on.
settleInSweep_NoCatch(threw) == IF threw THEN "rejected" ELSE "fulfilled"

\* The try/catch around a call of the sweep: its promise is fulfilled
\* whether refreshAccountQuota threw or not.
settleInSweep(threw) == "fulfilled"

\* checkAndRotate after the await: `current` is the account object captured
\* before it, the candidates are the accounts of this.storage.
checkAndRotateAfter(s, current) ==
    LET available == availableAccounts(s, current.id)
    IN  IF ~shouldRotateAccount(current.rateLimits, s.rotationThreshold)
        THEN [storage |-> s,
              result |-> RotationResult("checkAndRotate", FALSE, Undefined, Undefined,
                                        "Current account within quota")]
        ELSE IF Len(available) = 0
        THEN [storage |-> s,
              result |-> RotationResult("checkAndRotate", FALSE, current.id, Undefined,
                                        "All accounts at or above threshold")]
        ELSE [storage |-> switchAccount(s, available[1].id),
              result |-> RotationResult("checkAndRotate", TRUE, current.id,
                                        available[1].id, "Rotated")]

\* checkAndRotate after the await when the captured account object is still
\* the one of this.storage with the id.
checkAndRotateResume(s, currentId) ==
    checkAndRotateAfter(s, s.accounts[FindIndex(s.accounts, currentId)])

\* What is left of the plugin's state after a call of a sweep settled:
\* Promise.all waits for the other calls of the sweep; after the last one
\* the timer's sweep ends, and showQuotaToast reloads and calls
\* checkAndRotate, which returns at once without an account and else awaits
\* the refresh of the current one.
afterSweepCall(s, calls, p, r, origin, threw, t) ==
    IF p[origin] # "refreshAllQuotas"
    THEN [inflight |-> calls, plugin |-> p, result |-> r]
    ELSE IF settleInSweep(threw) = "rejected"
    THEN [inflight |-> calls, plugin |-> [p EXCEPT ![origin] = "idle"],
          result |-> Threw("refreshAllQuotas")]
    ELSE IF \E c \in calls : c.origin = origin
    THEN [inflight |-> calls, plugin |-> p, result |-> r]
    ELSE IF origin = "timer"
    THEN [inflight |-> calls, plugin |-> [p EXCEPT !.timer = "idle"], result |-> r]
    ELSE IF getCurrentAccount(s) = 0
    THEN [inflight |-> reload(calls), plugin |-> [p EXCEPT !.toast = "idle"],
          result |-> RotationResult("checkAndRotate", FALSE, Undefined, Undefined,
                                    "No accounts configured")]
    ELSE [inflight |-> reload(calls)
                          \cup {startRefreshAccountQuota(s.accounts[getCurrentAccount(s)],
                                                         "check", t)},
          plugin |-> [p EXCEPT !.toast = "checkAndRotate"],
          result |-> r]

\* The plugin's state after the call `c` threw.
afterFailure(s, calls, p, r, c, t) ==
    IF c.origin = "check"
    THEN [inflight |-> calls, plugin |-> [p EXCEPT !.toast = "idle"],
          result |-> Threw("checkAndRotate")]
    ELSE afterSweepCall(s, calls, p, r, c.origin, TRUE, t)

\* Who calls refreshAccountQuota: the sweep of the auto-refresh timer, the
\* sweep of showQuotaToast, and checkAndRotate in showQuotaToast.
Origins == {"timer", "toast", "check"}

MaxPluginAccounts == 2

PluginAccountIds == 1..MaxPluginAccounts

\* Date.now() while the plugin runs.
PluginNow == 200000

\* The first account's tokens have expired and can be refreshed, the
\* others' do not expire.
PluginTokens(id) ==
    IF id = 1 THEN Tokens("at1", Some("rt1"), Some(150000))
    ELSE Tokens(AccessTokens[id], None, None)

PluginUsageResponses ==
    {None, Some(Snapshot(Some(Window(95)), None)), Some(Snapshot(Some(Window(40)), None))}

\* The store the plugin loads: the first account is the active one and has
\* a snapshot at the threshold from an earlier fetch, the others have none.
PluginStorage ==
    [ createDefaultStorage EXCEPT
        !.accounts = [ id \in PluginAccountIds |->
                         IF id = 1
                         THEN PluginAccount(id, PluginTokens(id),
                                            Some(Snapshot(Some(Window(95)), None)),
                                            PreviousFetchTime, Some(id))
                         ELSE PluginAccount(id, PluginTokens(id), None, Undefined,
                                            Some(id)) ],
        !.currentAccountId = 1 ]

InitPlugin ==
    /\ storage = PluginStorage
    /\ result = NoResult
    /\ InitQuotaIdle
    /\ call = None
    /\ disk = storage
    /\ now = PluginNow
    /\ requests = <<>>
    /\ attempts = <<>>
    /\ inflight = {}
    /\ plugin = [timer |-> "idle", toast |-> "idle"]
    /\ auth = syncToOpenCodeAuth(None, storage.accounts[1])

\* The interval of startAutoRefresh elapses: refreshAllQuotas().
TimerFires ==
    /\ plugin.timer = "idle"
    /\ inflight' = inflight \cup refreshAllQuotas(storage, "timer", now)
    /\ plugin' = [plugin EXCEPT !.timer = "refreshAllQuotas"]
    /\ call' = None
    /\ UNCHANGED <<managerVars, quotaVars, tokenVars, attempts, auth>>

\* showQuotaToast is called: refreshAllQuotas().
ToastFires ==
    /\ plugin.toast = "idle"
    /\ inflight' = inflight \cup refreshAllQuotas(storage, "toast", now)
    /\ plugin' = [plugin EXCEPT !.toast = "refreshAllQuotas"]
    /\ call' = None
    /\ UNCHANGED <<managerVars, quotaVars, tokenVars, attempts, auth>>

\* The token endpoint answers a call in flight.
RefreshResponse(origin, accountId) ==
    \E c \in inflight, response \in AuthRefreshResponses :
        LET next  == onRefreshResponse(c, response, now)
            after == afterFailure(storage, inflight \ {c}, plugin, result, c, now)
        IN /\ c.origin = origin
           /\ c.accountId = accountId
           /\ c.phase = "refresh"
           /\ IF next # None
              THEN /\ inflight' = (inflight \ {c}) \cup next
                   /\ UNCHANGED <<plugin, result>>
              ELSE /\ inflight' = after.inflight
                   /\ plugin' = after.plugin
                   /\ result' = after.result
           /\ call' = None
           /\ UNCHANGED <<storage, quotaVars, tokenVars, attempts, auth>>

\* The usage endpoint answers a call in flight.
UsageResponse(origin, accountId) ==
    \E c \in inflight, response \in PluginUsageResponses :
        LET failed == afterFailure(storage, inflight \ {c}, plugin, result, c, now)
            stored == completeRefreshAccountQuota(storage, c, Val(response), now)
            rotation == checkAndRotateResume(stored, c.accountId)
            swept == afterSweepCall(stored, inflight \ {c}, plugin, result,
                                    c.origin, FALSE, now)
        IN /\ c.origin = origin
           /\ c.accountId = accountId
           /\ c.phase = "usage"
           /\ call' = Some([Call("fetchRateLimits", <<c.origin, c.accountId>>)
                               EXCEPT !.ret = response])
           /\ IF response = None
              THEN /\ inflight' = failed.inflight
                   /\ plugin' = failed.plugin
                   /\ result' = failed.result
                   /\ UNCHANGED <<storage, disk, auth>>
              ELSE IF c.origin = "check"
              THEN /\ storage' = rotation.storage
                   /\ disk' = storage'
                   /\ auth' = IF rotation.result.rotated
                              THEN syncCurrent(storage', auth) ELSE auth
                   /\ result' = rotation.result
                   /\ inflight' = reload(inflight \ {c})
                   /\ plugin' = [plugin EXCEPT !.toast = "idle"]
              ELSE /\ storage' = stored
                   /\ disk' = storage'
                   /\ inflight' = swept.inflight
                   /\ plugin' = swept.plugin
                   /\ result' = swept.result
                   /\ UNCHANGED auth
           /\ UNCHANGED <<quotaVars, now, requests, attempts>>

NextPlugin ==
    \/ TimerFires
    \/ ToastFires
    \/ \E origin \in Origins, accountId \in PluginAccountIds :
           RefreshResponse(origin, accountId)
    \/ \E origin \in Origins, accountId \in PluginAccountIds :
           UsageResponse(origin, accountId)

SpecPlugin == InitPlugin /\ [][NextPlugin]_vars

\* Every request in flight is answered.
FairPlugin ==
    \A origin \in Origins, accountId \in PluginAccountIds :
        /\ WF_vars(RefreshResponse(origin, accountId))
        /\ WF_vars(UsageResponse(origin, accountId))

SpecPluginFair == SpecPlugin /\ FairPlugin

(***************************************************************************)
(* Properties of the sweeps                                                *)
(***************************************************************************)
\* The usage endpoint has just answered a call of a sweep.
SweepAnswered ==
    /\ call' # None
    /\ Val(call').args[1] \in {"timer", "toast"}

AnsweredOrigin == Val(call').args[1]

AnsweredId == Val(call').args[2]

Answer == Val(call').ret

\* The other calls of the sweep that were in flight before the answer.
OtherCalls ==
    {c \in inflight : c.origin = AnsweredOrigin /\ c.accountId # AnsweredId}

C22_State == result # Threw("refreshAllQuotas")

C22_Step ==
    SweepAnswered =>
        /\ Answer # None =>
               /\ AccountOf(storage', AnsweredId).rateLimits = Answer
               /\ AccountOf(storage', AnsweredId).rateLimitsUpdatedAt = now
        /\ Answer = None =>
               /\ storage' = storage
               /\ \A c \in OtherCalls :
                      /\ plugin'[AnsweredOrigin] = "refreshAllQuotas"
                      /\ \E d \in inflight' :
                             d.origin = c.origin /\ d.accountId = c.accountId

\* C22: in a sweep of refreshAllQuotas, whichever fetches fail, the sweep
\* does not throw, goes on with the other accounts and ends once every call
\* has been answered, and every account whose fetch succeeded holds the
\* fetched snapshot with rateLimitsUpdatedAt = Date.now().
C22_SweepSurvivesFailures ==
    /\ []C22_State
    /\ [][C22_Step]_vars
    /\ (plugin.timer = "refreshAllQuotas") ~> (plugin.timer = "idle")
    /\ (plugin.toast = "refreshAllQuotas") ~> (plugin.toast # "refreshAllQuotas")

\* The timer's sweep has ended after the fetch of the first account failed
\* and the fetch of the second one succeeded: the second holds a snapshot
\* of this sweep, the first the one from before.
C22_Witness ==
    /\ plugin.timer = "idle"
    /\ plugin.toast = "idle"
    /\ result = NoResult
    /\ call # None
    /\ Val(call).args[1] = "timer"
    /\ storage.accounts[1].rateLimitsUpdatedAt = PreviousFetchTime
    /\ storage.accounts[2].rateLimitsUpdatedAt = PluginNow

(***************************************************************************)
(* Properties of the periodic check and of the calls in flight             *)
(***************************************************************************)
\* checkAndRotate of showQuotaToast has just returned after the usage
\* endpoint answered its fetch with a snapshot.
CheckAnswered ==
    /\ call' # None
    /\ Val(call').args[1] = "check"
    /\ Val(call').ret # None

\* An account that is not at or above the threshold: its snapshot is below
\* it, or it has none.
BelowThreshold(s, a) == ~shouldRotateAccount(a.rateLimits, s.rotationThreshold)

OthersBelow(s, id) ==
    {i \in 1..Len(s.accounts) : s.accounts[i].id # id /\ BelowThreshold(s, s.accounts[i])}

C29_Step ==
    (/\ CheckAnswered
     /\ shouldRotateAccount(Val(call').ret, storage.rotationThreshold)
     /\ OthersBelow(storage, Val(call').args[2]) # {})
        => /\ plugin'.toast = "idle"
           /\ result'.rotated
           /\ storage'.currentAccountId # Val(call').args[2]
           /\ getCurrentAccount(storage') # 0
           /\ BelowThreshold(storage', storage'.accounts[getCurrentAccount(storage')])
           /\ AuthHolds(auth', storage'.accounts[getCurrentAccount(storage')])

Overlapping(c, d) == c # d /\ c.accountId = d.accountId

\* C30: no two refreshes of one account are in flight together, so no
\* refresh token is with the provider in two refreshes at once.
C30_NoOverlappingRefresh ==
    \A c \in inflight, d \in inflight : ~Overlapping(c, d)

\* The sweep of the timer and the sweep of showQuotaToast both wait for the
\* token endpoint with the refresh token of the first account.
C30_Witness ==
    \E c \in inflight, d \in inflight :
        /\ Overlapping(c, d)
        /\ c.phase = "refresh"
        /\ d.phase = "refresh"
        /\ c.tokens.refreshToken = d.tokens.refreshToken

(***************************************************************************)
(* The rotation decision on two managers whose stores hold the same        *)
(* accounts in the same order, with the same snapshots, active account and *)
(* threshold, and differ in the clock, in rateLimitsUpdatedAt and in the   *)
(* tokens.                                                                 *)
(***************************************************************************)
STALE_THRESHOLD_MS == 900000

\* A manager and its Date.now().
Manager(s, t) == [storage |-> s, now |-> t]

\* checkAndRotate after the await with a defect: an account whose snapshot
\* is stale is not a candidate.
automaticSelection_StaleSkipped(m) ==
    LET s         == m.storage
        currentId == s.accounts[getCurrentAccount(s)].id
        fresh     == SelectSeq(availableAccounts(s, currentId),
                               LAMBDA a : m.now - a.rateLimitsUpdatedAt
                                              <= STALE_THRESHOLD_MS)
    IN  IF ~shouldRotateAccount(s.accounts[getCurrentAccount(s)].rateLimits,
                                s.rotationThreshold)
        THEN [storage |-> s,
              result |-> RotationResult("checkAndRotate", FALSE, Undefined, Undefined,
                                        "Current account within quota")]
        ELSE IF Len(fresh) = 0
        THEN [storage |-> s,
              result |-> RotationResult("checkAndRotate", FALSE, currentId, Undefined,
                                        "All accounts at or above threshold")]
        ELSE [storage |-> switchAccount(s, fresh[1].id),
              result |-> RotationResult("checkAndRotate", TRUE, currentId,
                                        fresh[1].id, "Rotated")]

\* checkAndRotate from the read of the threshold on, for the manager m.
automaticSelection(m) ==
    checkAndRotateResume(m.storage,
                         m.storage.accounts[getCurrentAccount(m.storage)].id)

\* rotate() of the manager m.
manualRotate(m) == rotate(m.storage)

\* What a caller sees of a decision: the result and the active account.
Decision(o) == [result |-> o.result, currentAccountId |-> o.storage.currentAccountId]

MaxDecisionAccounts == 2

\* The cached snapshots: none, below the threshold, at or above it in the
\* primary window, at or above it in the secondary window.
DecisionSnapshots ==
    { None,
      Some(Snapshot(Some(Window(40)), None)),
      Some(Snapshot(Some(Window(95)), None)),
      Some(Snapshot(Some(Window(40)), Some(Window(95)))) }

\* What the decision is claimed not to read: the tokens, expired or not,
\* and the time of the last fetch, never or PreviousFetchTime.
DecisionMetas ==
    { [tokens |-> tk, updatedAt |-> u] :
        tk \in {Tokens("at1", Some("rt1"), Some(150000)), Tokens("at2", None, None)},
        u \in {Undefined, PreviousFetchTime} }

BaselineMeta == [tokens |-> Tokens("at2", None, None), updatedAt |-> PreviousFetchTime]

\* Date.now() of the first manager, for which PreviousFetchTime is fresh,
\* and a later one for which it is stale.
DecisionClock == <<PluginNow, PluginNow + STALE_THRESHOLD_MS>>

DecisionStorage(n, snapshots, metas, active) ==
    [ createDefaultStorage EXCEPT
        !.accounts = [ i \in 1..n |->
                         PluginAccount(i, metas[i].tokens, snapshots[i],
                                       metas[i].updatedAt, Some(i)) ],
        !.currentAccountId = active ]

InitDecision ==
    /\ \E n \in 1..MaxDecisionAccounts :
         \E snapshots \in [1..n -> DecisionSnapshots], metas \in [1..n -> DecisionMetas],
            active \in 1..n, t \in {DecisionClock[1], DecisionClock[2]},
            fn \in {"checkAndRotate", "rotate"} :
             /\ storage = DecisionStorage(n, snapshots, [i \in 1..n |-> BaselineMeta],
                                          active)
             /\ call = Call(fn, << Manager(storage, DecisionClock[1]),
                                   Manager(DecisionStorage(n, snapshots, metas, active),
                                           t) >>)
    /\ result = NoResult
    /\ InitQuotaIdle
    /\ disk = storage
    /\ now = DecisionClock[1]
    /\ requests = <<>>
    /\ attempts = <<>>
    /\ inflight = {}
    /\ plugin = [timer |-> "idle", toast |-> "idle"]
    /\ auth = None

\* Both managers run checkAndRotate from the read of the threshold on; the
\* first is the one whose store is kept.
CheckDecides ==
    LET first  == automaticSelection(call.args[1])
        second == automaticSelection(call.args[2])
    IN /\ call.fn = "checkAndRotate"
       /\ call.ret = None
       /\ storage' = first.storage
       /\ result' = first.result
       /\ disk' = storage'
       /\ auth' = IF first.result.rotated THEN syncCurrent(storage', auth) ELSE auth
       /\ call' = [call EXCEPT !.ret = Some(<<Decision(first), Decision(second)>>)]
       /\ UNCHANGED <<quotaVars, now, requests, attempts, inflight, plugin>>

\* Both managers run rotate().
RotateDecides ==
    LET first  == manualRotate(call.args[1])
        second == manualRotate(call.args[2])
    IN /\ call.fn = "rotate"
       /\ call.ret = None
       /\ storage' = first.storage
       /\ result' = first.result
       /\ disk' = storage'
       /\ auth' = IF first.result.rotated THEN syncCurrent(storage', auth) ELSE auth
       /\ call' = [call EXCEPT !.ret = Some(<<Decision(first), Decision(second)>>)]
       /\ UNCHANGED <<quotaVars, now, requests, attempts, inflight, plugin>>

NextDecision ==
    \/ CheckDecides
    \/ RotateDecides

SpecDecision == InitDecision /\ [][NextDecision]_vars

\* What the decision is claimed to depend on.
DecisionInputs(s) ==
    [ accounts |-> [i \in 1..Len(s.accounts) |->
                      [id |-> s.accounts[i].id, rateLimits |-> s.accounts[i].rateLimits]],
      currentAccountId |-> s.currentAccountId,
      rotationThreshold |-> s.rotationThreshold ]

\* C26: two managers whose stores agree on the order and ids of the
\* accounts, the cached snapshots, the active id and the threshold come to
\* the same result and the same active account, in checkAndRotate's
\* selection and in rotate(), whatever their clocks, rateLimitsUpdatedAt and
\* tokens.
C26_DecisionReadsSnapshotsOnly ==
    (/\ call.ret # None
     /\ DecisionInputs(call.args[1].storage) = DecisionInputs(call.args[2].storage))
        => Val(call.ret)[1] = Val(call.ret)[2]

\* Both managers have rotated to the second account, whose snapshot one of
\* them holds as stale, with expired tokens on the active account.
C26_Witness ==
    /\ call.ret # None
    /\ call.fn = "checkAndRotate"
    /\ Val(call.ret)[2].result.rotated
    /\ call.args[2].now - call.args[2].storage.accounts[2].rateLimitsUpdatedAt
           > STALE_THRESHOLD_MS
    /\ call.args[2].storage.accounts[1].tokens # call.args[1].storage.accounts[1].tokens
    /\ storage.currentAccountId = 2

(***************************************************************************)
(* The callback server after the wait has completed                        *)
(***************************************************************************)
\* The timeout callback has just run while the server was not yet closed.
TimeoutRan ==
    /\ attempts[1].timer
    /\ ~attempts'[1].timer
    /\ attempts[1].server \in {"listening", "closing"}
    /\ attempts'[1].server = "closing"

\* The handler has just run for a request to the callback path.
CallbackRan ==
    /\ call' # None
    /\ Val(call').args[1].path = "/callback"

\* C31: once a branch (error, malformed, state mismatch, success, timeout)
\* has completed the wait, the handler runs for no further request to the
\* callback path, and neither a request nor the timeout calls server.close()
\* again.
C31_Step == attempts[1].wait # None => ~CallbackRan /\ ~TimeoutRan

C31_OneCallbackOneClose == [][C31_Step]_vars

\* The wait completed with an authorization, and the handler has since run
\* for a callback carrying an error: it answered 400, called server.close()
\* and reject.
C31_Witness ==
    /\ attempts[1].wait # None
    /\ Val(attempts[1].wait).kind = "Authorized"
    /\ call # None
    /\ Val(call).args[1].path = "/callback"
    /\ Truthy(Val(call).args[1].error)
    /\ Effect("close") \in {Val(call).ret[k] : k \in 1..Len(Val(call).ret)}

(***************************************************************************)
(* startAutoRefresh and stopAutoRefresh: handle tells whether                *)
(* this.refreshTimer is set, timers counts the intervals that have been    *)
(* set and not cleared.                                                    *)
(***************************************************************************)
startAutoRefresh(p) ==
    IF p.handle THEN p ELSE [p EXCEPT !.handle = TRUE, !.timers = @ + 1]

stopAutoRefresh(p) ==
    IF p.handle THEN [p EXCEPT !.handle = FALSE, !.timers = @ - 1] ELSE p

InitTimer ==
    /\ storage = PluginStorage
    /\ result = NoResult
    /\ InitQuotaIdle
    /\ call = None
    /\ disk = storage
    /\ now = PluginNow
    /\ requests = <<>>
    /\ attempts = <<>>
    /\ inflight = {}
    /\ plugin = [timer |-> "idle", toast |-> "idle", handle |-> FALSE, timers |-> 0]
    /\ auth = syncToOpenCodeAuth(None, storage.accounts[1])

StartAutoRefresh ==
    /\ plugin' = startAutoRefresh(plugin)
    /\ call' = None
    /\ UNCHANGED <<managerVars, quotaVars, tokenVars, attempts, inflight, auth>>

StopAutoRefresh ==
    /\ plugin' = stopAutoRefresh(plugin)
    /\ call' = None
    /\ UNCHANGED <<managerVars, quotaVars, tokenVars, attempts, inflight, auth>>

\* The interval of a timer that is set elapses: refreshAllQuotas().
IntervalElapses ==
    /\ plugin.timers > 0
    /\ plugin.timer = "idle"
    /\ inflight' = inflight \cup refreshAllQuotas(storage, "timer", now)
    /\ plugin' = [plugin EXCEPT !.timer = "refreshAllQuotas"]
    /\ call' = None
    /\ UNCHANGED <<managerVars, quotaVars, tokenVars, attempts, auth>>

NextTimer ==
    \/ StartAutoRefresh
    \/ StopAutoRefresh
    \/ IntervalElapses
    \/ \E accountId \in PluginAccountIds : RefreshResponse("timer", accountId)
    \/ \E accountId \in PluginAccountIds : UsageResponse("timer", accountId)

SpecTimer == InitTimer /\ [][NextTimer]_vars

C32_State == plugin.timers <= 1

\* While this.refreshTimer is unset no sweep of the timer begins and the
\* store is not written.
C32_Step ==
    (~plugin.handle /\ ~plugin'.handle)
        => /\ ~(plugin.timer = "idle" /\ plugin'.timer = "refreshAllQuotas")
           /\ storage' = storage
           /\ disk' = disk

\* C32: at most one refresh timer exists, and from the return of
\* stopAutoRefresh to the next call of startAutoRefresh no sweep of the timer
\* begins and no call made by the timer writes to the store.
C32_StoppedTimerIsSilent == []C32_State /\ [][C32_Step]_vars

\* The timer is stopped, and the usage endpoint has just answered a call of
\* the sweep that was in flight: its snapshot is in the store.
C32_Witness ==
    /\ ~plugin.handle
    /\ plugin.timers = 0
    /\ call # None
    /\ Val(call).ret # None
    /\ AccountOf(storage, Val(call).args[2]).rateLimits = Val(call).ret
    /\ AccountOf(storage, Val(call).args[2]).rateLimitsUpdatedAt = PluginNow

(***************************************************************************)
(* oauth: the token pair made from a response of the token endpoint        *)
(***************************************************************************)
\* exchangeCodeForTokens from the parsed body of a 2xx response on, at
\* Date.now() = t.
tokensOfExchange(data, t) ==
    Tokens(data.access_token, data.refresh_token,
           IF NonZero(data.expires_in)
           THEN Some(t + Val(data.expires_in) * 1000) ELSE None)

\* The expires_in of a response: absent, or a number of seconds.
ExpiresInValues == {None, Some(0), Some(1), Some(60), Some(3600), Some(86400)}

TokenResponses ==
    { TokenResponse("at1", rt, ei) : rt \in {None, Some("rt1")}, ei \in ExpiresInValues }

\* The refresh token refreshTokens was called with.
SentRefreshToken == "rt0"

InitExpiresIn ==
    /\ storage = createDefaultStorage
    /\ result = NoResult
    /\ InitQuotaIdle
    /\ call \in { Call(fn, <<data>>) :
                     fn \in {"exchangeCodeForTokens", "refreshTokens"},
                     data \in TokenResponses }
    /\ now \in NowValues
    /\ disk = createDefaultStorage
    /\ requests = <<>>
    /\ attempts = <<>>
    /\ InitPluginIdle

\* The token endpoint has answered the code exchange with 2xx.
ExchangeReturns ==
    /\ call.fn = "exchangeCodeForTokens"
    /\ call.ret = None
    /\ call' = [call EXCEPT !.ret = Some(tokensOfExchange(call.args[1], now))]
    /\ UNCHANGED <<managerVars, quotaVars, tokenVars, attempts, pluginVars>>

\* The token endpoint has answered the refresh with 2xx.
RefreshReturns ==
    /\ call.fn = "refreshTokens"
    /\ call.ret = None
    /\ call' = [call EXCEPT
                   !.ret = refreshTokens(SentRefreshToken, Some(call.args[1]), now)]
    /\ UNCHANGED <<managerVars, quotaVars, tokenVars, attempts, pluginVars>>

NextExpiresIn ==
    \/ ExchangeReturns
    \/ RefreshReturns

SpecExpiresIn == InitExpiresIn /\ [][NextExpiresIn]_vars

\* C33: the pair made from a token response has expiresAt = the time of the
\* response + expires_in seconds whenever the response has expires_in, and
\* expiresAt is unset, the token never expiring, only when it has none.
C33_ExpiresAtFromExpiresIn ==
    call.ret # None =>
        LET data   == call.args[1]
            tokens == Val(call.ret)
        IN /\ data.expires_in # None
                  => tokens.expiresAt = Some(now + Val(data.expires_in) * 1000)
           /\ data.expires_in = None
                  => /\ tokens.expiresAt = None
                     /\ \A t \in NowValues : ~isTokenExpired(tokens.expiresAt, t)

\* A response with expires_in = 0 has given a pair without expiresAt, which
\* isTokenExpired never finds expired.
C33_Witness ==
    /\ call.ret # None
    /\ call.args[1].expires_in = Some(0)
    /\ Val(call.ret).expiresAt = None
    /\ \A t \in NowValues : ~isTokenExpired(Val(call.ret).expiresAt, t)

(***************************************************************************)
(* The plan type of a usage response                                       *)
(***************************************************************************)
\* The nine values of PlanType.
PlanType ==
    {"Free", "Go", "Plus", "Pro", "Team", "Business", "Enterprise", "Edu", "Unknown"}

toUpperCaseChar(c) ==
    IF \E k \in 1..Len(LowerCaseLetters) : LowerCaseLetters[k] = c
    THEN UpperCaseLetters[CHOOSE k \in 1..Len(LowerCaseLetters) : LowerCaseLetters[k] = c]
    ELSE c

toUpperCase(str) == [k \in 1..Len(str) |-> toUpperCaseChar(str[k])]

Capitalised(str) ==
    [k \in 1..Len(str) |-> IF k = 1 THEN toUpperCaseChar(str[k]) ELSE str[k]]

\* The plan names the mapping knows, in lower case.
KnownPlanNames == {e[1] : e \in PlanMapping}

\* The plan_type strings of the responses: the known names and the names of
\* the properties of Object.prototype, each as written, capitalised and in
\* upper case, and strings that are neither.
PlanStrings ==
    LET names == KnownPlanNames \cup {e[1] : e \in ObjectPrototype}
                     \cup { <<>>, <<"p", "r", "e", "m", "i", "u", "m">>, <<"p", "l", "u", "s", " ">>, <<"x">> }
    IN names \cup {Capitalised(n) : n \in names} \cup {toUpperCase(n) : n \in names}

PlanBodies ==
    { RateLimitStatusResponse(plan, rl, None) :
        plan \in PlanStrings,
        rl \in { None,
                 Some([ primary_window |-> Some(RateLimitWindowResponse(42, 18000,
                                                                        1700000000)),
                        secondary_window |-> None ]) } }

InitPlan ==
    /\ storage = addAccount(createDefaultStorage,
                            TimedAccount(ParseAccountId, ManagerTokens, None, Undefined))
    /\ result = NoResult
    /\ InitQuotaIdle
    /\ call \in {Call("parseRateLimitResponse", <<body>>) : body \in PlanBodies}
    /\ disk = storage
    /\ now = PluginNow
    /\ requests = <<>>
    /\ attempts = <<>>
    /\ InitPluginIdle

\* fetchRateLimits returns the parsed response, and refreshAccountQuota
\* stores it and saves.
StorePlan ==
    /\ call.fn = "parseRateLimitResponse"
    /\ call.ret = None
    /\ LET rl == parseRateLimitResponse(call.args[1]) IN
       /\ call' = [call EXCEPT !.ret = Some(rl)]
       /\ storage' = updateAccountRateLimitsAt(storage, ParseAccountId, rl, now)
       /\ disk' = storage'
    /\ UNCHANGED <<result, quotaVars, now, requests, attempts, pluginVars>>

NextPlan == StorePlan

SpecPlan == InitPlan /\ [][NextPlan]_vars

\* C34: whatever string the usage endpoint returns as plan_type, the stored
\* planType is one of the nine values of PlanType, and it is Unknown for
\* every string that is not a known plan name in any letter case.
C34_PlanTypeEnumerated ==
    call.ret # None =>
        LET planType == AccountOf(storage, ParseAccountId).rateLimits
            stored   == Val(planType).planType
        IN /\ planType # None
           /\ stored \in PlanType
           /\ toLowerCase(call.args[1].plan_type) \notin KnownPlanNames
                  => stored = "Unknown"

\* The response had plan_type "constructor", which is no plan name, and the
\* stored planType is the function the mapping object inherits under that
\* name.
C34_Witness ==
    /\ call.ret # None
    /\ call.args[1].plan_type = <<"c", "o", "n", "s", "t", "r", "u", "c", "t", "o", "r">>
    /\ Val(AccountOf(storage, ParseAccountId).rateLimits).planType \notin PlanType

(***************************************************************************)
(* The current account id under the manager's operations                   *)
(***************************************************************************)
Ids(s) == {s.accounts[k].id : k \in 1..Len(s.accounts)}

\* C35: after every sequence of login, removeAccount, switchAccount, rotate,
\* checkAndRotate and quota refreshes from the default empty store, the
\* current account id is unset only when the collection is empty, and is
\* otherwise the id of an account of the collection.
C35_PointerNamesAnAccount ==
    IF storage.currentAccountId = Undefined
    THEN storage.accounts = <<>>
    ELSE storage.currentAccountId \in Ids(storage)

\* The only account, the current one, has been removed: the collection is
\* empty and the current account id unset.
C35_Witness ==
    /\ result.op = "removeAccount"
    /\ storage.accounts = <<>>
    /\ storage.currentAccountId = Undefined
    /\ auth # None

\* The current account id after a removal that took the store from s to t.
AfterRemoval(s, t) ==
    IF s.currentAccountId = Undefined \/ s.currentAccountId \in Ids(t)
    THEN s.currentAccountId
    ELSE IF Len(t.accounts) > 0 THEN t.accounts[1].id ELSE Undefined

C36_Step ==
    now' = now =>
        LET op      == result'.op
            before  == storage.currentAccountId
            after   == storage'.currentAccountId
        IN /\ op = "login" =>
                  after = IF before = Undefined
                          THEN storage'.accounts[Len(storage'.accounts)].id
                          ELSE before
           /\ op = "removeAccount" => after = AfterRemoval(storage, storage')
           /\ op = "switchAccount" => after = before \/ after \in Ids(storage)
           /\ op \in {"rotate", "checkAndRotate"} =>
                  \/ after = before
                  \/ /\ result'.rotated
                     /\ after = result'.newAccountId
                     /\ after \in Ids(storage)
           /\ op \in {"refreshAccountQuota", "updateSettings"} => after = before

\* C36: the current account id changes only by a switch or a rotation to an
\* id of the collection, by the addition of an account while it is unset,
\* or by the removal of the current account, after which it is the first
\* remaining account or unset; removing another account, switching to an
\* unknown id, further logins, updateSettings and quota refreshes leave it
\* as it is.
C36_PointerChangesOnlyBy == [][C36_Step]_vars

\* A second account has been logged in and the first is still the current
\* one.
C36_Witness ==
    /\ result.op = "login"
    /\ Len(storage.accounts) = 2
    /\ storage.currentAccountId = storage.accounts[1].id

(***************************************************************************)
(* One manager whose operations overlap: checkAndRotate,                   *)
(* refreshAccountQuota and refreshAllQuotas are in flight from their await *)
(* to the answer of the usage endpoint, and rotate, switchAccount,         *)
(* removeAccount and reload run in between. A call holds the account       *)
(* object it captured: the store functions change the objects of           *)
(* this.storage in place, so the object is the stored one until            *)
(* removeAccount filters it out of the collection or reload replaces the   *)
(* object graph; from then on it keeps the state it had.                   *)
(***************************************************************************)
\* A call in flight and, once the account object it captured is no longer
\* part of this.storage, that object.
ManagerCall(c) == [refresh |-> c, object |-> None]

\* The captured object of the call leaves this.storage `s`.
orphaned(s, mc) ==
    IF mc.refresh.attached
    THEN [ refresh |-> [mc.refresh EXCEPT !.attached = FALSE],
           object |-> Some(AccountOf(s, mc.refresh.accountId)) ]
    ELSE mc

\* The calls in flight after removeAccount(accountId) on `s`.
afterRemoveAccount(s, calls, accountId) ==
    {IF mc.refresh.accountId = accountId THEN orphaned(s, mc) ELSE mc : mc \in calls}

\* The calls in flight after reload() replaced `s`.
afterReload(s, calls) == {orphaned(s, mc) : mc \in calls}

\* The object `current` of checkAndRotate when refreshAccountQuota returned
\* and this.storage is `s`.
capturedAccount(s, mc) ==
    IF mc.refresh.attached THEN AccountOf(s, mc.refresh.accountId) ELSE Val(mc.object)

\* Calls of one manager in flight at a time.
MaxInFlight == 2

ManagerOrigins == {"checkAndRotate", "refreshAccountQuota", "refreshAllQuotas"}

InFlight(origin, accountId) ==
    {mc \in inflight : mc.refresh.origin = origin /\ mc.refresh.accountId = accountId}

InitInterleave ==
    /\ storage = PluginStorage
    /\ result = NoResult
    /\ InitQuotaIdle
    /\ call = None
    /\ disk = storage
    /\ now = PluginNow
    /\ requests = <<>>
    /\ attempts = <<>>
    /\ inflight = {}
    /\ plugin = [timer |-> "idle", toast |-> "idle"]
    /\ auth = syncToOpenCodeAuth(None, storage.accounts[1])

\* checkAndRotate up to its await.
StartCheckAndRotate ==
    /\ \A mc \in inflight : mc.refresh.origin # "checkAndRotate"
    /\ Cardinality(inflight) < MaxInFlight
    /\ IF getCurrentAccount(storage) = 0
       THEN /\ result' = RotationResult("checkAndRotate", FALSE, Undefined, Undefined,
                                        "No accounts configured")
            /\ UNCHANGED inflight
       ELSE /\ inflight' = inflight \cup
                   {ManagerCall(startRefreshAccountQuota(
                        storage.accounts[getCurrentAccount(storage)],
                        "checkAndRotate", now))}
            /\ UNCHANGED result
    /\ call' = None
    /\ UNCHANGED <<storage, quotaVars, tokenVars, attempts, plugin, auth>>

\* refreshAccountQuota(accountId) up to its await.
StartRefreshAccountQuota ==
    \E accountId \in Ids(storage) :
        /\ InFlight("refreshAccountQuota", accountId) = {}
        /\ Cardinality(inflight) < MaxInFlight
        /\ inflight' = inflight \cup
               {ManagerCall(startRefreshAccountQuota(AccountOf(storage, accountId),
                                                     "refreshAccountQuota", now))}
        /\ call' = None
        /\ UNCHANGED <<managerVars, quotaVars, tokenVars, attempts, plugin, auth>>

\* refreshAllQuotas up to Promise.all.
StartRefreshAllQuotas ==
    /\ \A mc \in inflight : mc.refresh.origin # "refreshAllQuotas"
    /\ Cardinality(inflight) + Len(storage.accounts) <= MaxInFlight
    /\ inflight' = inflight \cup
           {ManagerCall(c) : c \in refreshAllQuotas(storage, "refreshAllQuotas", now)}
    /\ call' = None
    /\ UNCHANGED <<managerVars, quotaVars, tokenVars, attempts, plugin, auth>>

\* rotate() while calls are in flight.
ManualRotate ==
    /\ inflight # {}
    /\ storage' = rotate(storage).storage
    /\ auth' = IF rotate(storage).result.rotated
               THEN syncCurrent(storage', auth) ELSE auth
    /\ result' = rotate(storage).result
    /\ disk' = IF rotate(storage).result.rotated THEN storage' ELSE disk
    /\ call' = None
    /\ UNCHANGED <<quotaVars, now, requests, attempts, inflight, plugin>>

\* switchAccount(accountId) while calls are in flight.
ManualSwitchAccount ==
    \E accountId \in PluginAccountIds :
        /\ inflight # {}
        /\ storage' = switchAccount(storage, accountId)
        /\ auth' = syncCurrent(storage', auth)
        /\ result' = Done("switchAccount")
        /\ disk' = storage'
        /\ call' = None
        /\ UNCHANGED <<quotaVars, now, requests, attempts, inflight, plugin>>

\* removeAccount(accountId) while calls are in flight.
ManualRemoveAccount ==
    \E accountId \in Ids(storage) :
        /\ inflight # {}
        /\ storage' = removeAccount(storage, accountId)
        /\ auth' = syncCurrent(storage', auth)
        /\ result' = Done("removeAccount")
        /\ disk' = storage'
        /\ inflight' = afterRemoveAccount(storage, inflight, accountId)
        /\ call' = None
        /\ UNCHANGED <<quotaVars, now, requests, attempts, plugin>>

\* reload() while calls are in flight.
ManualReload ==
    /\ inflight # {}
    /\ storage' = disk
    /\ inflight' = afterReload(storage, inflight)
    /\ result' = Done("reload")
    /\ call' = None
    /\ UNCHANGED <<quotaVars, tokenVars, attempts, plugin, auth>>

\* The token endpoint answers a call in flight; refreshAllQuotas catches
\* what its calls throw.
TokenAnswer(origin, accountId) ==
    \E mc \in InFlight(origin, accountId), response \in AuthRefreshResponses :
        LET next == onRefreshResponse(mc.refresh, response, now)
        IN /\ mc.refresh.phase = "refresh"
           /\ IF next # None
              THEN /\ inflight' = (inflight \ {mc}) \cup {[mc EXCEPT !.refresh = Val(next)]}
                   /\ UNCHANGED result
              ELSE /\ inflight' = inflight \ {mc}
                   /\ result' = IF origin = "refreshAllQuotas" THEN result
                                ELSE Threw(origin)
           /\ call' = None
           /\ UNCHANGED <<storage, quotaVars, tokenVars, attempts, plugin, auth>>

\* The usage endpoint answers a call in flight: refreshAccountQuota stores
\* and saves, and checkAndRotate goes on to its decision.
UsageAnswer(origin, accountId) ==
    \E mc \in InFlight(origin, accountId), response \in PluginUsageResponses :
        LET stored   == completeRefreshAccountQuota(storage, mc.refresh, Val(response), now)
            rotation == checkAndRotateAfter(stored, capturedAccount(stored, mc))
        IN /\ mc.refresh.phase = "usage"
           /\ call' = Some([Call("fetchRateLimits", <<origin, accountId>>)
                               EXCEPT !.ret = response])
           /\ inflight' = inflight \ {mc}
           /\ IF response = None
              THEN /\ result' = IF origin = "refreshAllQuotas" THEN result
                                ELSE Threw(origin)
                   /\ UNCHANGED <<storage, disk, auth>>
              ELSE IF origin = "checkAndRotate"
              THEN /\ storage' = rotation.storage
                   /\ disk' = storage'
                   /\ auth' = IF rotation.result.rotated
                              THEN syncCurrent(storage', auth) ELSE auth
                   /\ result' = rotation.result
              ELSE /\ storage' = stored
                   /\ disk' = storage'
                   /\ result' = Done(origin)
                   /\ UNCHANGED auth
           /\ UNCHANGED <<quotaVars, now, requests, attempts, plugin>>

NextInterleave ==
    \/ StartCheckAndRotate
    \/ StartRefreshAccountQuota
    \/ StartRefreshAllQuotas
    \/ ManualRotate
    \/ ManualSwitchAccount
    \/ ManualRemoveAccount
    \/ ManualReload
    \/ \E origin \in ManagerOrigins, accountId \in PluginAccountIds :
           TokenAnswer(origin, accountId)
    \/ \E origin \in ManagerOrigins, accountId \in PluginAccountIds :
           UsageAnswer(origin, accountId)

SpecInterleave == InitInterleave /\ [][NextInterleave]_vars

(***************************************************************************)
(* Properties of overlapping manager operations                            *)
(***************************************************************************)
\* The usage endpoint has just answered the call `origin` made.
Answered(origin) ==
    /\ call' # None
    /\ Val(call').args[1] = origin
    /\ Val(call').ret # None

\* The call that has just been answered, as it was in flight.
AnsweredCall == CHOOSE mc \in InFlight(Val(call').args[1], Val(call').args[2]) : TRUE

C37_Step ==
    (Answered("checkAndRotate") /\ result'.rotated) =>
        /\ result'.previousAccountId = storage.currentAccountId
        /\ result'.newAccountId # storage.currentAccountId
        /\ result'.newAccountId \in Ids(storage')

\* C37: whatever rotate, switchAccount and removeAccount calls ran while the
\* quota fetch of checkAndRotate was in flight, a result with rotated=true
\* names as previousAccountId the account that was current just before the
\* switch, and as newAccountId another account, one of the collection.
C37_RotationResultNamesTheSwitch == [][C37_Step]_vars

\* checkAndRotate has returned rotated=true naming as previous account one
\* that removeAccount took out of the collection while the fetch was in
\* flight.
C37_Witness ==
    /\ call # None
    /\ Val(call).args[1] = "checkAndRotate"
    /\ result.op = "checkAndRotate"
    /\ result.rotated
    /\ result.previousAccountId \notin Ids(storage)
    /\ storage.currentAccountId = result.newAccountId

C38_Step ==
    (/\ call' # None
     /\ Answer # None
     /\ ~AnsweredCall.refresh.attached
     /\ AnsweredId \in Ids(storage)) =>
        /\ AccountOf(storage', AnsweredId).rateLimits = Answer
        /\ AnsweredCall.refresh.updatedTokens # None =>
               AccountOf(storage', AnsweredId).tokens = Val(AnsweredCall.refresh.updatedTokens)
        /\ disk' = storage'
        /\ AnsweredOrigin = "checkAndRotate" =>
               (result'.reason = "Current account within quota"
                    <=> ~shouldRotateAccount(Answer, storage.rotationThreshold))

\* C38: when reload() replaced this.storage while the quota refresh of an
\* account was in flight, the answer is not lost: the account's record in
\* the store saved afterwards holds the fetched snapshot and the refreshed
\* tokens, and checkAndRotate decides on the fetched snapshot.
C38_ReloadKeepsFetchResults == [][C38_Step]_vars

\* The usage endpoint has answered a call for the first account, whose
\* tokens had expired and were refreshed by the call; the fetched snapshot
\* is stored and the stored tokens are still the expired ones.
C38_Witness ==
    /\ call # None
    /\ Val(call).args[2] = 1
    /\ Val(call).ret # None
    /\ 1 \in Ids(storage)
    /\ AccountOf(storage, 1).rateLimits = Val(call).ret
    /\ AccountOf(storage, 1).tokens = PluginTokens(1)
    /\ disk = storage

C39_Step ==
    /\ Ids(storage') \subseteq Ids(storage)
    /\ Ids(disk') \subseteq Ids(disk)
    /\ (/\ call' # None
        /\ AnsweredOrigin \in {"refreshAccountQuota", "refreshAllQuotas"}
        /\ AnsweredId \notin Ids(storage)) =>
           /\ storage' = storage
           /\ disk' = storage
           /\ storage'.currentAccountId # AnsweredId

\* C39: an account removed while a refreshAccountQuota call or a sweep's
\* call for it is in flight stays removed. When the fetch is answered the
\* collection and the saved store are as they were after the removal: the
\* account is in neither, it is not the current one, and the records of the
\* other accounts are unchanged.
C39_RemovedAccountStaysRemoved == [][C39_Step]_vars

\* A call of a sweep for the first account has been answered with a
\* snapshot after the account was removed: the other account is the only
\* one and the current one.
C39_Witness ==
    /\ call # None
    /\ Val(call).args = <<"refreshAllQuotas", 1>>
    /\ Val(call).ret # None
    /\ Ids(storage) = {2}
    /\ storage.currentAccountId = 2
    /\ disk = storage

(***************************************************************************)
(* Two actors on one storage file: the plugin's manager, which holds the   *)
(* store in memory and saves it after every answered fetch of its sweep,   *)
(* and the command line, a process of its own that loads the file, changes *)
(* it and saves it.                                                        *)
(***************************************************************************)
\* Accounts the command line adds.
MaxCliAccounts == 1

CliAccountIds == (MaxPluginAccounts + 1)..(MaxPluginAccounts + MaxCliAccounts)

ActorAccountIds == PluginAccountIds \cup CliAccountIds

\* The account importFromOpenCodeAuth or createAccountFromRefreshToken
\* returned.
CliAccount(id, accessToken) ==
    PluginAccount(id, Tokens(accessToken, Some("rtC"), None), None, Undefined, Some(id))

\* codex-auth import: loadStorage, cmdImport, saveStorage.
ActorCmdImport ==
    \E id \in CliAccountIds :
        /\ disk' = cmdImport(disk, CliAccount(id, "atI")).storage
        /\ result' = cmdImport(disk, CliAccount(id, "atI")).result
        /\ call' = None
        /\ UNCHANGED <<storage, quotaVars, now, requests, attempts, pluginVars>>

\* codex-auth add-token: loadStorage, addAccount, saveStorage; the id is a
\* new one.
ActorCmdAddToken ==
    \E id \in CliAccountIds :
        /\ id \notin Ids(disk) \cup Ids(storage)
        /\ disk' = cmdAddToken(disk, CliAccount(id, "atC")).storage
        /\ result' = cmdAddToken(disk, CliAccount(id, "atC")).result
        /\ call' = None
        /\ UNCHANGED <<storage, quotaVars, now, requests, attempts, pluginVars>>

\* The plugin's manager reloads (showQuotaToast, tool codex_quota).
ActorReload ==
    /\ storage # disk
    /\ storage' = disk
    /\ inflight' = reload(inflight)
    /\ call' = None
    /\ UNCHANGED <<result, quotaVars, tokenVars, attempts, plugin, auth>>

NextActors ==
    \/ ActorCmdImport
    \/ ActorCmdAddToken
    \/ ActorReload
    \/ TimerFires
    \/ \E accountId \in ActorAccountIds : RefreshResponse("timer", accountId)
    \/ \E accountId \in ActorAccountIds : UsageResponse("timer", accountId)

SpecActors == InitPlugin /\ [][NextActors]_vars

C40_Step == \A id \in CliAccountIds : id \in Ids(disk) => id \in Ids(disk')

\* C40: an account the command line wrote to the storage file is not lost
\* by a later save of a manager that holds an older copy of the store in
\* memory: every save leaves the account in the file.
C40_SaveKeepsOtherActorsAccount == [][C40_Step]_vars

\* The command line has added an account and the file no longer holds it.
C40_Witness ==
    /\ result.op \in {"cmdImport", "cmdAddToken"}
    /\ result.accountId \in CliAccountIds
    /\ result.accountId \notin Ids(disk)
    /\ disk = storage

====
